---- MODULE Spec2Model ----
(***************************************************************************)
(* Verification model of the HydrowLand voice core (src-tauri/src).        *)
(*                                                                         *)
(* Part 1: audio/mixer.rs      - AudioMixer (per-peer jitter buffers, mix) *)
(* Part 2: webrtc/audio_mesh.rs, webrtc/mesh_manager.rs - the peer map,    *)
(*         offer/answer exchange, broadcast.                               *)
(*                                                                         *)
(* Samples are f32 in the source.  Here a sample is an integer number of   *)
(* 1/Unit steps, a gain likewise, and a mixed output sample is the pair    *)
(* [num, root] standing for the real number num / (Unit^3 * sqrt(root)):   *)
(* the product sample * volume * master carries Unit^3 and the             *)
(* normalisation factor 1/sqrt(peer_count) is kept exact as the root.      *)
(***************************************************************************)
EXTENDS Integers, Sequences, FiniteSets, TLC

\* ------------------------------------------------------------------ bounds
\* one sample of amplitude 1.0, and a gain of 1.0, in model steps
Unit == 10
\* audio/mod.rs SAMPLES_PER_FRAME is 960; the frame is scaled down here
SAMPLES_PER_FRAME == 2
\* number of add_peer_samples calls explored in one behaviour
MaxAdds == 2
\* number of setter / remove calls explored in one behaviour
MaxSets == 1
\* frames sent, and frames requested, in the jitter-buffer scenario
ScenarioFrames == 20
\* transports (peer connections) created in one behaviour
MaxPcs == 2
\* frames the capture callback takes in one behaviour
MaxFrames == 3
\* get_outgoing_packet calls made in one behaviour
MaxPolls == 2
\* receive_peer_audio calls made in one behaviour
MaxReceives == 6
\* frames the shared playback buffer is cut back to: the source's 20, scaled
PlaybackCapFrames == 3
\* the longest input handed to resample
MaxResampleLen == 3
\* samples in a frame of the noise suppressor: the source's 480, scaled
DENOISE_FRAME_SIZE == 2
\* AudioDenoiser::process calls made in one behaviour
MaxProcess == 3
\* OpusEncoder::encode calls made in one behaviour
MaxEncodes == 3
\* streaming tasks spawned in one behaviour
MaxStreams == 2
\* frames counted by stats.frames_sent between two starts
MaxScreenFrames == 2
\* control channels, registered senders and received messages of one
\* behaviour
MaxChannels == 2
MaxSenders == 2
MaxMessages == 2
\* samples handed to AudioPlayback and output callbacks run in one behaviour
MaxPlaySamples == 5
MaxCallbacks == 3
\* audio_set_master_volume calls in one behaviour
MaxVolumeCalls == 3
\* send_audio calls in one behaviour
MaxSends == 3

\* ------------------------------------------------------- program constants
JITTER_BUFFER_FRAMES == 3
JITTER_BUFFER_SAMPLES == SAMPLES_PER_FRAME * JITTER_BUFFER_FRAMES

MixPeers == {"p1", "p2"}

VARIABLES
    mixer,      \* AudioMixer: [peers: peer_id -> PeerBuffer, master_volume]
    mixed,      \* the frame returned by the last get_mixed_samples
    mx_adds,    \* add_peer_samples calls made so far
    mx_sets     \* setter calls made so far

mixerVars == <<mixer, mixed, mx_adds, mx_sets>>

VARIABLES
    jt_n,       \* scenario: number of frames sent and requested
    jt_amp,     \* scenario: the constant amplitude of the frames
    jt_out      \* scenario: the kind of each frame returned so far

jitterVars == <<jt_n, jt_amp, jt_out>>

VARIABLES
    pcs,        \* every transport (RTCPeerConnection) created so far, by handle
    peers,      \* per manager: peer_id -> AudioPeerEntry
    local_audio_enabled, \* per manager: the local_audio_enabled flag
    bc,         \* per manager: the broadcast call in progress, if any
    delivered   \* transports whose control channel received a text message

meshVars == <<pcs, peers, local_audio_enabled, bc, delivered>>

VARIABLES
    hs_step,    \* handshake scenario: scripted calls returned so far
    hs_res      \* handshake scenario: what each of them returned

handshakeVars == <<hs_step, hs_res>>

VARIABLES
    is_capturing,   \* AudioStreamingService.is_capturing
    capture_stream, \* the input stream held, NoStream if none
    is_muted,       \* AudioStreamingService.is_muted
    encoder,        \* whether the encoder slot holds an encoder
    timestamp,      \* the timestamp counter
    outgoing,       \* the outbound channel: packets sent and not yet received
    current_level,  \* AudioStreamingService.current_level
    cb,             \* the capture callback: the frame it is working on
    emitted,        \* the last level event emitted, NoEvent before the first
    captured,       \* frames the capture callback has taken so far
    unmuted_once,   \* whether set_muted(false) has ever been called
    sent,           \* every packet ever pushed onto the channel, in order
    rx_lock,        \* the poller holding the lock of the receiving end
    got             \* what the polls returned, in the order they returned

captureVars == <<is_capturing, capture_stream, is_muted, encoder, timestamp,
                 outgoing, current_level, cb, emitted, captured, unmuted_once,
                 sent, rx_lock, got>>

VARIABLES
    selected_input_device,  \* AudioStreamingService.selected_input_device
    selected_output_device, \* AudioStreamingService.selected_output_device
    is_playing,             \* AudioStreamingService.is_playing
    playback_stream,        \* the output stream held, NoStream if none
    native,                 \* the number of native streams alive, per direction
    dev_call                \* per direction: the set_*_device call in progress

deviceVars == <<selected_input_device, selected_output_device, is_playing,
                playback_stream, native, dev_call>>

VARIABLES
    peer_playback,   \* peer_id -> PeerPlayback (its samples_buffer)
    playback_buffer, \* the shared playback buffer
    rx_calls         \* receive_peer_audio calls made so far

receiveVars == <<peer_playback, playback_buffer, rx_calls>>

streamVars == <<captureVars, deviceVars, receiveVars>>

VARIABLES
    peer_level  \* the last get_peer_level call: the peer asked for, the result

levelVars == <<peer_level>>

VARIABLES
    rs_in,      \* resample: the input samples
    rs_ratio,   \* resample: the ratio, as the fraction num / den
    rs_out,     \* resample: the output, once computed
    rs_done     \* resample: whether the call has been made

resampleVars == <<rs_in, rs_ratio, rs_out, rs_done>>

VARIABLES
    denoiser,   \* AudioDenoiser: enabled, source rate, input and output buffer
    dn_calls,   \* process calls made so far
    dn_in,      \* the inputs of the process calls made while disabled, joined
    dn_out,     \* the outputs of those calls, joined
    dn_fed,     \* the inputs of the process calls made while enabled at the
                \* internal rate since the buffers were last cleared, joined
    dn_got      \* the outputs of those calls, joined

denoiseVars == <<denoiser, dn_calls, dn_in, dn_out, dn_fed, dn_got>>

VARIABLES
    enc_log,    \* OpusEncoder::encode: each call made, with what it returned
    pl_log      \* process_capture: per frame, what was processed and encoded

encodeVars == <<enc_log, pl_log>>

dspVars == <<levelVars, resampleVars, denoiseVars, encodeVars>>

VARIABLES
    ss_is_streaming,   \* ScreenStreamInner.is_streaming
    ss_stop_tx,        \* stop_tx: the task whose channel it sends to, or 0
    ss_current_frame,  \* current_frame: the task that produced it, or 0
    ss_tasks,          \* the streaming tasks spawned, in order
    ss_frames_sent,    \* stats.frames_sent
    ss_call,           \* the screen_stream command in progress
    ss_active          \* the stream whose start returned Ok and for which
                       \* no stop has been called since, or 0

screenVars == <<ss_is_streaming, ss_stop_tx, ss_current_frame, ss_tasks,
                ss_frames_sent, ss_call, ss_active>>

VARIABLES
    mm_message_tx,  \* MeshManager.message_tx: the sender registered, or 0
    mm_channels,    \* the control channels, with the sender their on_message
                    \* handler holds
    mm_received     \* the text messages received, with where each went

messageVars == <<mm_message_tx, mm_channels, mm_received>>

VARIABLES
    av_is_voice_active,  \* AudioState.is_voice_active
    rc_is_capturing,     \* RealtimeCapture.is_capturing
    rc_stream,           \* RealtimeCapture.stream: the device it runs on
    rc_selected_device,  \* RealtimeCapture.selected_device
    rc_app_handle,       \* RealtimeCapture.app_handle is Some
    rc_is_muted,         \* RealtimeCapture.is_muted
    rc_noise_suppression, \* RealtimeCapture.denoiser is enabled
    av_returned          \* the last voice command and what it returned

voiceVars == <<av_is_voice_active, rc_is_capturing, rc_stream,
               rc_selected_device, rc_app_handle, rc_is_muted,
               rc_noise_suppression, av_returned>>

VARIABLES
    pb_buffer,   \* AudioPlayback.buffer
    pb_played,   \* what the output callbacks wrote to the device, joined
    pb_count     \* samples handed to the playback so far; a sample is known
                 \* by its number in that order

outputVars == <<pb_buffer, pb_played, pb_count>>

VARIABLES
    av_master_volume,  \* AudioState.master_volume, in Unit-ths
    vol_calls,         \* per caller: where its audio_set_master_volume is
    vol_count          \* audio_set_master_volume calls begun

volumeVars == <<av_master_volume, vol_calls, vol_count>>

VARIABLES
    rtp_sequence_number,  \* LocalAudioTrack.sequence_number, a u16
    rtp_timestamp,        \* LocalAudioTrack.timestamp, a u32 kept as two
                          \* 16-bit halves [hi, lo]
    rtp_calls,            \* per caller: where its send_audio is
    rtp_packets,          \* headers of the packets built, in build order
    rtp_results           \* results of the send_audio calls that returned

rtpVars == <<rtp_sequence_number, rtp_timestamp, rtp_calls, rtp_packets,
             rtp_results>>

appVars == <<screenVars, messageVars, voiceVars, outputVars, volumeVars,
             rtpVars>>

vars == <<mixerVars, jitterVars, meshVars, handshakeVars, streamVars, dspVars, appVars>>

coreVars == <<mixerVars, jitterVars, meshVars, handshakeVars, streamVars,
              dspVars>>

\* what the mixer's own operations leave alone
notMixer == <<jitterVars, meshVars, handshakeVars, streamVars, dspVars, appVars>>
\* what the mesh managers' own operations leave alone
notMesh == <<mixerVars, jitterVars, handshakeVars, streamVars, dspVars, appVars>>
\* what the streaming service's own operations leave alone
notStream == <<mixerVars, jitterVars, meshVars, handshakeVars, dspVars, appVars>>

\* the parts of the state a specification does not use stay as constructed
JitterIdle == jt_n = 0 /\ jt_amp = 0 /\ jt_out = <<>>
MixerIdle ==
    /\ mixer = [peers |-> <<>>, master_volume |-> Unit]
    /\ mixed = <<>>
    /\ mx_adds = 0
    /\ mx_sets = 0
HandshakeIdle == hs_step = 0 /\ hs_res = <<>>

NoStream == "none"
NoFrame == [step |-> "idle"]
NoEvent == [level |-> 0, is_speaking |-> FALSE, rms |-> 0, frame |-> 0]

\* AudioStreamingService::new
CaptureIdle ==
    /\ is_capturing = FALSE
    /\ capture_stream = NoStream
    /\ is_muted = TRUE
    /\ encoder = FALSE
    /\ timestamp = 0
    /\ outgoing = <<>>
    /\ current_level = 0
    /\ cb = NoFrame
    /\ emitted = NoEvent
    /\ captured = 0
    /\ unmuted_once = FALSE
    /\ sent = <<>>
    /\ rx_lock = 0
    /\ got = <<>>

DeviceIdle ==
    /\ selected_input_device = "default"
    /\ selected_output_device = "default"
    /\ is_playing = FALSE
    /\ playback_stream = NoStream
    /\ native = [d \in {"in", "out"} |-> 0]
    /\ dev_call = [d \in {"in", "out"} |-> [step |-> "idle"]]

ReceiveIdle ==
    /\ peer_playback = <<>>
    /\ playback_buffer = <<>>
    /\ rx_calls = 0

StreamIdle == CaptureIdle /\ DeviceIdle /\ ReceiveIdle

\* a mean of squares sum / n, standing for the RMS sqrt(sum / n)
MeanSquare(sum, n) == [sum |-> sum, n |-> n]
ZeroLevel == MeanSquare(0, 1)
NoLevelCall == [peer |-> "none", level |-> ZeroLevel]
LevelIdle == peer_level = NoLevelCall
One == [num |-> 1, den |-> 1]
ResampleIdle ==
    rs_in = <<>> /\ rs_ratio = One /\ rs_out = <<>> /\ rs_done = FALSE
\* AudioDenoiser::new(); the source rate is kept as the ratio 48 kHz / rate
AudioDenoiserNew ==
    [enabled |-> TRUE, to_48k |-> One, input_buffer |-> <<>>,
     output_buffer |-> <<>>]
DenoiseIdle ==
    /\ denoiser = AudioDenoiserNew
    /\ dn_calls = 0 /\ dn_in = <<>> /\ dn_out = <<>>
    /\ dn_fed = <<>> /\ dn_got = <<>>
EncodeIdle == enc_log = <<>> /\ pl_log = <<>>
DspIdle == LevelIdle /\ ResampleIdle /\ DenoiseIdle /\ EncodeIdle
NoCall == [op |-> "idle"]
\* ScreenStreamState::default()
ScreenIdle ==
    /\ ss_is_streaming = FALSE
    /\ ss_stop_tx = 0
    /\ ss_current_frame = 0
    /\ ss_tasks = <<>>
    /\ ss_frames_sent = 0
    /\ ss_call = NoCall
    /\ ss_active = 0
\* MeshManager::new(): message_tx is None, no session
MessageIdle ==
    mm_message_tx = 0 /\ mm_channels = <<>> /\ mm_received = <<>>
\* AudioState::new(), RealtimeCapture::new()
VoiceIdle ==
    /\ av_is_voice_active = FALSE
    /\ rc_is_capturing = FALSE
    /\ rc_stream = "none"
    /\ rc_selected_device = "default"
    /\ rc_app_handle = FALSE
    /\ rc_is_muted = TRUE
    /\ rc_noise_suppression = TRUE
    /\ av_returned = [op |-> "none", res |-> "ok"]
\* AudioPlayback::new()
OutputIdle == pb_buffer = <<>> /\ pb_played = <<>> /\ pb_count = 0
\* AudioState::new(): master_volume 1.0, no command running
VolumeCallers == 1..2
VolumeIdle ==
    /\ av_master_volume = Unit
    /\ vol_calls = [c \in VolumeCallers |-> [pc |-> "idle"]]
    /\ vol_count = 0
RtpCallers == 1..2
U32(hi, lo) == [hi |-> hi, lo |-> lo]
\* no track in use
RtpIdle ==
    /\ rtp_sequence_number = 0
    /\ rtp_timestamp = U32(0, 0)
    /\ rtp_calls = [c \in RtpCallers |-> [pc |-> "idle"]]
    /\ rtp_packets = <<>>
    /\ rtp_results = <<>>
AppOtherIdle ==
    ScreenIdle /\ MessageIdle /\ VoiceIdle /\ OutputIdle /\ VolumeIdle
AppIdle == AppOtherIdle /\ RtpIdle

Managers == {"A", "B"}
PeerIds == {"p1", "p2"}

BroadcastIdle ==
    [phase |-> "idle", kind |-> "none", snap |-> {}, pending |-> {},
     tried |-> {}, failed |-> FALSE, res |-> "none"]

\* AudioMeshManager::new for every manager, no transport created yet
MeshIdle ==
    /\ pcs = <<>>
    /\ peers = [m \in Managers |-> <<>>]
    /\ local_audio_enabled = [m \in Managers |-> FALSE]
    /\ bc = [m \in Managers |-> BroadcastIdle]
    /\ delivered = {}

CoreIdle ==
    /\ MixerIdle /\ JitterIdle /\ MeshIdle /\ HandshakeIdle /\ StreamIdle
    /\ DspIdle

\* ---------------------------------------------------------------- helpers
Min(a, b) == IF a < b THEN a ELSE b

Unit3 == Unit * Unit * Unit

\* f32::clamp(0.0, 1.0) on a gain
ClampGain(v) == IF v < 0 THEN 0 ELSE IF v > Unit THEN Unit ELSE v

\* an output sample: num / (Unit^3 * sqrt(root))
Out(n, r) == [num |-> n, root |-> r]
Silence == Out(0, 1)

\* mutant of ClampOut: the scaled sum is returned as it is
ClampOut_NoClamp(s, master, r) == Out(s * master, IF s * master = 0 THEN 1 ELSE r)

\* (*sample * master_volume).clamp(-1.0, 1.0) for the sum `s` (in Unit^2
\* steps) normalised by 1/sqrt(r)
ClampOut(s, master, r) ==
    LET n == s * master IN
    IF n = 0 THEN Silence
    ELSE IF n * n > Unit3 * Unit3 * r
         THEN (IF n > 0 THEN Out(Unit3, 1) ELSE Out(0 - Unit3, 1))
         ELSE Out(n, r)

\* two output samples denote the same real number
SameAmp(x, y) ==
    /\ (x.num >= 0) = (y.num >= 0)
    /\ x.num * x.num * y.root = y.num * y.num * x.root

\* --------------------------------------------------------------- AudioMixer
PeerBufferNew == [samples |-> <<>>, volume |-> Unit, muted |-> FALSE]

AudioMixerNew == [peers |-> <<>>, master_volume |-> Unit]

RECURSIVE PushAll(_, _)
\* for sample in samples { buffer.samples.push_back(sample) }
PushAll(buf, s) ==
    IF s = <<>> THEN buf ELSE PushAll(Append(buf, Head(s)), Tail(s))

\* mutants of TrimFront: no cap at all; the cap kept by dropping the newest
TrimFront_NoCap(buf) == buf
TrimFront_DropNewest(buf) ==
    SubSeq(buf, 1, Min(Len(buf), JITTER_BUFFER_SAMPLES * 2))

RECURSIVE TrimFront(_)
\* while buffer.samples.len() > JITTER_BUFFER_SAMPLES * 2 { pop_front() }
TrimFront(buf) ==
    IF Len(buf) > JITTER_BUFFER_SAMPLES * 2 THEN TrimFront(Tail(buf)) ELSE buf

HasPeer(m, p) == p \in DOMAIN m.peers

\* self.peers.entry(peer_id).or_insert_with(PeerBuffer::new)
EntryOrNew(m, p) == IF HasPeer(m, p) THEN m.peers[p] ELSE PeerBufferNew

\* a map with key p set to v (HashMap insert / entry)
MapPut(f, p, v) == [q \in (DOMAIN f) \cup {p} |-> IF q = p THEN v ELSE f[q]]
\* a map without key p (HashMap remove)
MapDel(f, p) == [q \in (DOMAIN f) \ {p} |-> f[q]]

add_peer_samples(m, p, s) ==
    LET buffer == EntryOrNew(m, p)
        grown == PushAll(buffer.samples, s)
    IN [m EXCEPT !.peers =
          MapPut(m.peers, p, [buffer EXCEPT !.samples = TrimFront(grown)])]

\* mutant of Contributes: the mute check is missing
Contributes_IgnoreMute(b) == Len(b.samples) >= SAMPLES_PER_FRAME

\* the peers that pass both `continue` checks of mix_into
Contributes(b) == ~b.muted /\ Len(b.samples) >= SAMPLES_PER_FRAME

Contributors(m) == {p \in DOMAIN m.peers : Contributes(m.peers[p])}

\* mutants of NormRoot: a lone peer is normalised too; no normalisation
NormRoot_LonePeerToo(m) == Cardinality(DOMAIN m.peers) + 1
NormRoot_Never(m) == 1

\* let norm_factor = if peer_count > 1 { 1/sqrt(peer_count) } else { 1.0 }
\* returned as the number under the root
NormRoot(m) ==
    LET peer_count == Cardinality(DOMAIN m.peers)
    IN IF peer_count > 1 THEN peer_count ELSE 1

RECURSIVE SumAt(_, _, _)
\* output[i] += sample * buffer.volume, over the contributing peers
SumAt(m, ps, i) ==
    IF ps = {} THEN 0
    ELSE LET p == CHOOSE q \in ps : TRUE
         IN m.peers[p].samples[i] * m.peers[p].volume + SumAt(m, ps \ {p}, i)

\* mix_into(&mut self, output): the output slice and the mixer afterwards
mix_into(m, outlen) ==
    LET n == Min(outlen, SAMPLES_PER_FRAME)
        act == Contributors(m)
        root == NormRoot(m)
        output == [i \in 1..outlen |->
                     IF i <= n /\ DOMAIN m.peers # {}
                     THEN ClampOut(SumAt(m, act, i), m.master_volume, root)
                     ELSE Silence]
        drained == [p \in DOMAIN m.peers |->
                     IF p \in act
                     THEN [m.peers[p] EXCEPT
                             !.samples = SubSeq(@, n + 1, Len(@))]
                     ELSE m.peers[p]]
    IN [output |-> output, mixer |-> [m EXCEPT !.peers = drained]]

\* mutant of get_mixed_samples: the vector is one sample short
get_mixed_samples_Short(m) == mix_into(m, SAMPLES_PER_FRAME - 1)

\* let mut mixed = vec![0.0f32; SAMPLES_PER_FRAME]; self.mix_into(&mut mixed)
get_mixed_samples(m) == mix_into(m, SAMPLES_PER_FRAME)

set_peer_volume(m, p, v) ==
    IF HasPeer(m, p)
    THEN [m EXCEPT !.peers[p].volume = ClampGain(v)]
    ELSE m

set_peer_muted(m, p, b) ==
    IF HasPeer(m, p) THEN [m EXCEPT !.peers[p].muted = b] ELSE m

set_master_volume(m, v) == [m EXCEPT !.master_volume = ClampGain(v)]

remove_peer_buffer(m, p) == [m EXCEPT !.peers = MapDel(m.peers, p)]

clear(m) == [m EXCEPT !.peers = <<>>]

RECURSIVE SumSquares(_)
\* .map(|s| s * s).sum()
SumSquares(q) ==
    IF q = <<>> THEN 0 ELSE Head(q) * Head(q) + SumSquares(Tail(q))

\* buffer.samples.iter().take(sample_count): from the front of the deque
Take(q, n) == SubSeq(q, 1, n)

\* get_peer_level(&self, peer_id): the mean of squares under the root
get_peer_level(m, p) ==
    IF ~HasPeer(m, p) \/ m.peers[p].samples = <<>> THEN ZeroLevel
    ELSE LET sample_count == Min(Len(m.peers[p].samples), SAMPLES_PER_FRAME)
         IN MeanSquare(SumSquares(Take(m.peers[p].samples, sample_count)),
                       sample_count)

\* ----------------------------------------------------- mixer: inputs
Ramp(n) == [i \in 1..n |-> i]
ConstFrame(a) == [i \in 1..SAMPLES_PER_FRAME |-> a]
\* decoded chunks handed to add_peer_samples: a frame, a loud frame, and a
\* burst one sample short of the cap (it leaves a partial frame behind)
SampleInputs ==
    { Ramp(SAMPLES_PER_FRAME),
      ConstFrame(Unit),
      Ramp(JITTER_BUFFER_SAMPLES * 2 - 1) }

GainInputs == {0 - 5, 5, Unit + 5}

\* ----------------------------------------------------- mixer: actions
MixerInit ==
    /\ mixer = AudioMixerNew
    /\ mixed = <<>>
    /\ mx_adds = 0
    /\ mx_sets = 0
    /\ JitterIdle
    /\ MeshIdle
    /\ HandshakeIdle
    /\ StreamIdle
    /\ AppIdle
    /\ DspIdle

AddPeerSamples(p, s) ==
    /\ mx_adds < MaxAdds
    /\ mixer' = add_peer_samples(mixer, p, s)
    /\ mx_adds' = mx_adds + 1
    /\ UNCHANGED <<mixed, mx_sets, notMixer>>

GetMixedSamples ==
    /\ mixer' = get_mixed_samples(mixer).mixer
    /\ mixed' = get_mixed_samples(mixer).output
    /\ UNCHANGED <<mx_adds, mx_sets, notMixer>>

SetPeerVolume(p, v) ==
    /\ mx_sets < MaxSets
    /\ mixer' = set_peer_volume(mixer, p, v)
    /\ mx_sets' = mx_sets + 1
    /\ UNCHANGED <<mixed, mx_adds, notMixer>>

SetPeerMuted(p, b) ==
    /\ mx_sets < MaxSets
    /\ mixer' = set_peer_muted(mixer, p, b)
    /\ mx_sets' = mx_sets + 1
    /\ UNCHANGED <<mixed, mx_adds, notMixer>>

SetMasterVolume(v) ==
    /\ mx_sets < MaxSets
    /\ mixer' = set_master_volume(mixer, v)
    /\ mx_sets' = mx_sets + 1
    /\ UNCHANGED <<mixed, mx_adds, notMixer>>

RemoveMixerPeer(p) ==
    /\ mx_sets < MaxSets
    /\ mixer' = remove_peer_buffer(mixer, p)
    /\ mx_sets' = mx_sets + 1
    /\ UNCHANGED <<mixed, mx_adds, notMixer>>

ClearMixer ==
    /\ mx_sets < MaxSets
    /\ mixer' = clear(mixer)
    /\ mx_sets' = mx_sets + 1
    /\ UNCHANGED <<mixed, mx_adds, notMixer>>

MixerNext ==
    \/ \E p \in MixPeers, s \in SampleInputs : AddPeerSamples(p, s)
    \/ GetMixedSamples
    \/ \E p \in MixPeers, v \in GainInputs : SetPeerVolume(p, v)
    \/ \E p \in MixPeers, b \in BOOLEAN : SetPeerMuted(p, b)
    \/ \E v \in GainInputs : SetMasterVolume(v)
    \/ \E p \in MixPeers : RemoveMixerPeer(p)
    \/ ClearMixer

SpecMixer == MixerInit /\ [][MixerNext]_vars

\* ------------------------------------------------ mixer: level metering
GetPeerLevel(p) ==
    /\ peer_level' = [peer |-> p, level |-> get_peer_level(mixer, p)]
    /\ UNCHANGED <<mixerVars, jitterVars, meshVars, handshakeVars, streamVars,
                   resampleVars, denoiseVars, encodeVars, appVars>>

LevelNext ==
    \/ \E p \in MixPeers, s \in SampleInputs : AddPeerSamples(p, s)
    \/ GetMixedSamples
    \/ \E p \in MixPeers : RemoveMixerPeer(p)
    \/ \E p \in MixPeers : GetPeerLevel(p)

SpecLevel == MixerInit /\ [][LevelNext]_vars

\* ------------------------------------------- jitter-buffer scenario (C3)
\* peer "p1" sends jt_n full frames of constant amplitude jt_amp, then the
\* mixed output is requested jt_n times; jt_out records what each request
\* returned: "amp" (every sample equals jt_amp), "silent" or "other".
FrameKind(f, a) ==
    IF \A i \in DOMAIN f : f[i] = Out(a * Unit * Unit, 1) THEN "amp"
    ELSE IF \A i \in DOMAIN f : f[i] = Silence THEN "silent"
    ELSE "other"

JitterInit ==
    /\ mixer = AudioMixerNew
    /\ mixed = <<>>
    /\ mx_adds = 0
    /\ mx_sets = 0
    /\ jt_n \in 1..ScenarioFrames
    /\ jt_amp \in {1, 5}
    /\ jt_out = <<>>
    /\ MeshIdle
    /\ HandshakeIdle
    /\ StreamIdle
    /\ AppIdle
    /\ DspIdle

JitterAdd ==
    /\ mx_adds < jt_n
    /\ mixer' = add_peer_samples(mixer, "p1", ConstFrame(jt_amp))
    /\ mx_adds' = mx_adds + 1
    /\ UNCHANGED <<mixed, mx_sets, jt_n, jt_amp, jt_out>>
    /\ UNCHANGED <<meshVars, handshakeVars, streamVars, dspVars, appVars>>

JitterGet ==
    /\ mx_adds = jt_n
    /\ Len(jt_out) < jt_n
    /\ mixer' = get_mixed_samples(mixer).mixer
    /\ mixed' = get_mixed_samples(mixer).output
    /\ jt_out' = Append(jt_out, FrameKind(mixed', jt_amp))
    /\ UNCHANGED <<mx_adds, mx_sets, jt_n, jt_amp, meshVars, handshakeVars,
                   streamVars, dspVars, appVars>>

JitterNext == JitterAdd \/ JitterGet

SpecJitter == JitterInit /\ [][JitterNext]_vars


\* ====================================================== mesh managers
\* webrtc/audio_mesh.rs AudioMeshManager; webrtc/mesh_manager.rs MeshManager
\* is the same code without the audio track.  The transport library is not
\* part of the repository: a transport is modelled by what the managers
\* observe at the calls they make on it (signaling state, channel state).
\*   sig    : "new" (no description), "have-local-offer",
\*            "have-remote-offer", "stable" (both descriptions set)
\*   chan   : the control channel of this transport: "none", "created"
\*            (create_data_channel, not yet open), "open"
\*   status : "live", "closing" (close() spawned), "closed"
\* An offer or answer blob is named by the handle of the transport whose
\* local description it carries; Malformed is a string that does not decode,
\* External a well-formed description of a transport outside the model (it
\* reached this manager over the out-of-band signaling path).
Malformed == 0
NoChannel == 0
External == 0 - 1

Handles == DOMAIN pcs

NewPc(m, p, role, track) ==
    [owner |-> m, peer |-> p, role |-> role, sig |-> "new", remote |-> 0,
     track |-> track,
     chan |-> (IF role = "offerer" THEN "created" ELSE "none"),
     status |-> "live"]

HasSession(m, p) == p \in DOMAIN peers[m]

\* offers other managers have produced, and answers likewise
OfferBlobs(m) ==
    {h \in Handles : pcs[h].owner # m /\ pcs[h].role = "offerer"
                        /\ pcs[h].sig # "new"}
AnswerBlobs(m) ==
    {g \in Handles : pcs[g].owner # m /\ pcs[g].role = "answerer"
                        /\ pcs[g].sig = "stable"}
\* the descriptions a call can be handed
OfferInputs(m) == OfferBlobs(m) \cup {Malformed, External}
AnswerInputs(m) == AnswerBlobs(m) \cup {Malformed, External}

\* mutant of SetRemoteAnswerOk: the result of the negotiation is ignored
SetRemoteAnswerOk_Ignored(pc) == TRUE

\* pc.set_remote_description(answer): the transport takes an answer only
\* while its own offer is pending
SetRemoteAnswerOk(pc) == pc.status # "closed" /\ pc.sig = "have-local-offer"

\* what create_offer_for_peer returns.  fault: "none", "early" (a step
\* before the entry is stored fails), "late" (create_offer or
\* set_local_description fails)
CreateOfferResult(fault) ==
    IF fault = "early" THEN "setup"
    ELSE IF fault = "late" THEN "negotiation" ELSE "ok"

\* mutant of EntryStored: the entry is stored only when the call succeeds
EntryStored_OnSuccess(res) == res = "ok"

\* the entry is stored before the description is decoded or negotiated
EntryStored(res) == res # "setup"

create_offer_for_peer(m, p, fault) ==
    /\ Len(pcs) < MaxPcs
    /\ LET h == Len(pcs) + 1
           res == CreateOfferResult(fault)
           pc == NewPc(m, p, "offerer", local_audio_enabled[m])
           entry == [pc |-> h, data_channel |-> h,
                     local_audio_track |-> local_audio_enabled[m]]
       IN /\ pcs' = IF res = "setup" THEN pcs
                    ELSE IF res = "ok"
                    THEN Append(pcs, [pc EXCEPT !.sig = "have-local-offer"])
                    ELSE Append(pcs, pc)
          /\ peers' = IF EntryStored(res)
                      THEN [peers EXCEPT ![m] = MapPut(@, p, entry)]
                      ELSE peers
    /\ UNCHANGED <<local_audio_enabled, bc, delivered>>

\* what accept_offer_from_peer returns.  blob: Malformed, External or the
\* handle of the offering transport; "late": create_answer or
\* set_local_description fails
AcceptOfferResult(blob, fault) ==
    IF fault = "early" THEN "setup"
    ELSE IF blob = Malformed THEN "decode"
    ELSE IF fault = "late" THEN "negotiation" ELSE "ok"

accept_offer_from_peer(m, p, blob, fault) ==
    /\ Len(pcs) < MaxPcs
    /\ LET g == Len(pcs) + 1
           res == AcceptOfferResult(blob, fault)
           pc == NewPc(m, p, "answerer", local_audio_enabled[m])
           entry == [pc |-> g, data_channel |-> NoChannel,
                     local_audio_track |-> local_audio_enabled[m]]
       IN /\ pcs' = IF res = "setup" THEN pcs
                    ELSE IF res = "decode" THEN Append(pcs, pc)
                    ELSE IF res = "negotiation"
                    THEN Append(pcs, [pc EXCEPT !.sig = "have-remote-offer",
                                                !.remote = blob])
                    ELSE Append(pcs, [pc EXCEPT !.sig = "stable",
                                                !.remote = blob])
          /\ peers' = IF EntryStored(res)
                      THEN [peers EXCEPT ![m] = MapPut(@, p, entry)]
                      ELSE peers
    /\ UNCHANGED <<local_audio_enabled, bc, delivered>>

\* what accept_answer_from_peer returns.  blob: Malformed, External or the
\* handle of the answering transport
AcceptAnswerResult(m, p, blob) ==
    IF ~HasSession(m, p) THEN "no_session"
    ELSE IF blob = Malformed THEN "decode"
    ELSE IF SetRemoteAnswerOk(pcs[peers[m][p].pc]) THEN "ok"
    ELSE "negotiation"

accept_answer_from_peer(m, p, blob) ==
    /\ pcs' = IF AcceptAnswerResult(m, p, blob) = "ok"
              THEN [pcs EXCEPT ![peers[m][p].pc].sig = "stable",
                               ![peers[m][p].pc].remote = blob]
              ELSE pcs
    /\ UNCHANGED <<peers, local_audio_enabled, bc, delivered>>

\* mutant of ChannelOpen: a channel takes messages as soon as it is created
ChannelOpen_Created(d) == pcs[d].status # "closed"

\* dc.send_text succeeds on an open channel of a transport not yet closed
ChannelOpen(d) == pcs[d].chan = "open" /\ pcs[d].status # "closed"

\* what send_to_peer(p, message) returns
SendText(m, p) ==
    IF ~HasSession(m, p) \/ peers[m][p].data_channel = NoChannel
    THEN "no_channel"
    ELSE IF ChannelOpen(peers[m][p].data_channel) THEN "ok"
    ELSE "send_failed"

\* where a message sent by send_to_peer(p, ..) arrives: the transport at the
\* other end of the channel, unless that one is closed
Arrives(m, p) ==
    IF SendText(m, p) = "ok"
    THEN LET r == pcs[peers[m][p].data_channel].remote
         IN IF r = External THEN {r}
            ELSE IF r # 0 /\ pcs[r].status # "closed" THEN {r} ELSE {}
    ELSE {}

send_to_peer(m, p) ==
    /\ delivered' = delivered \cup Arrives(m, p)
    /\ UNCHANGED <<pcs, peers, local_audio_enabled, bc>>

\* the track send_audio_to_peer / broadcast_audio would write to
TrackOf(m, p) ==
    IF HasSession(m, p) /\ peers[m][p].local_audio_track
    THEN peers[m][p].pc ELSE 0

\* track.write_rtp: io is what the transport answers; it can fail only once
\* the transport is being closed
WriteRtpPossible(h, io) == io = "ok" \/ pcs[h].status # "live"

\* what send_audio_to_peer returns: if let Some(track) = track { send }; Ok(())
SendAudioResult(m, p, io) == IF TrackOf(m, p) = 0 THEN "ok" ELSE io

send_audio_to_peer(m, p, io) ==
    /\ IF TrackOf(m, p) = 0 THEN io = "ok"
       ELSE WriteRtpPossible(TrackOf(m, p), io)
    /\ UNCHANGED meshVars

\* broadcast / broadcast_message / broadcast_audio, first part: the snapshot.
\* A control broadcast collects the peer ids, an audio broadcast the
\* (peer id, track) pairs of the entries that hold a track.
Snapshot(m, kind) ==
    IF kind = "msg"
    THEN {[peer |-> p, pc |-> 0] : p \in DOMAIN peers[m]}
    ELSE {[peer |-> p, pc |-> peers[m][p].pc] :
            p \in {q \in DOMAIN peers[m] : peers[m][q].local_audio_track}}

broadcast_start(m, kind) ==
    /\ bc[m].phase = "idle"
    /\ bc' = [bc EXCEPT ![m] = [phase |-> "run", kind |-> kind,
                                snap |-> Snapshot(m, kind),
                                pending |-> Snapshot(m, kind),
                                tried |-> {}, failed |-> FALSE,
                                res |-> "none"]]
    /\ UNCHANGED <<pcs, peers, local_audio_enabled, delivered>>

\* mutant of AfterSend: the first failed send ends the loop (`?` instead of
\* `if let Err`)
AfterSend_Abort(b, e, r) ==
    IF r = "ok"
    THEN [b EXCEPT !.pending = @ \ {e}, !.tried = @ \cup {e}]
    ELSE [b EXCEPT !.pending = {}, !.tried = @ \cup {e}, !.failed = TRUE,
                   !.res = r]

\* one turn of the loop: the result r of the send to e is logged, not returned
AfterSend(b, e, r) ==
    [b EXCEPT !.pending = @ \ {e}, !.tried = @ \cup {e},
              !.failed = @ \/ r # "ok"]

\* broadcast, one send of the loop (the sends are awaited one by one, other
\* calls run in between)
broadcast_send(m, e, io) ==
    /\ bc[m].phase = "run"
    /\ e \in bc[m].pending
    /\ IF bc[m].kind = "msg"
       THEN /\ io = "ok"
            /\ bc' = [bc EXCEPT ![m] = AfterSend(@, e, SendText(m, e.peer))]
            /\ delivered' = delivered \cup Arrives(m, e.peer)
       ELSE /\ WriteRtpPossible(e.pc, io)
            /\ bc' = [bc EXCEPT ![m] = AfterSend(@, e, io)]
            /\ UNCHANGED delivered
    /\ UNCHANGED <<pcs, peers, local_audio_enabled>>

\* what the broadcast returns once the loop is over: Ok(()) unless the loop
\* was left with an error
BroadcastResult(b) == IF b.res = "none" THEN "ok" ELSE b.res

\* broadcast, the return after the loop; the locals of the call are gone
broadcast_return(m) ==
    /\ bc[m].phase = "run"
    /\ bc[m].pending = {}
    /\ bc' = [bc EXCEPT ![m] = BroadcastIdle]
    /\ UNCHANGED <<pcs, peers, local_audio_enabled, delivered>>

\* tokio::spawn(async move { entry.peer_connection.close().await })
SpawnClose(ps, hs) ==
    [h \in DOMAIN ps |->
        IF h \in hs /\ ps[h].status = "live"
        THEN [ps[h] EXCEPT !.status = "closing"] ELSE ps[h]]

\* mutant of remove_peer: an id without a session empties the map
remove_peer_AbsentDrains(m, p) ==
    /\ peers' = [peers EXCEPT ![m] = IF HasSession(m, p) THEN MapDel(@, p)
                                     ELSE <<>>]
    /\ pcs' = SpawnClose(pcs, IF HasSession(m, p) THEN {peers[m][p].pc}
                              ELSE {peers[m][q].pc : q \in DOMAIN peers[m]})
    /\ UNCHANGED <<local_audio_enabled, bc, delivered>>

remove_peer(m, p) ==
    /\ peers' = [peers EXCEPT ![m] = MapDel(@, p)]
    /\ pcs' = SpawnClose(pcs, IF HasSession(m, p) THEN {peers[m][p].pc} ELSE {})
    /\ UNCHANGED <<local_audio_enabled, bc, delivered>>

close_all(m) ==
    /\ peers' = [peers EXCEPT ![m] = <<>>]
    /\ pcs' = SpawnClose(pcs, {peers[m][p].pc : p \in DOMAIN peers[m]})
    /\ UNCHANGED <<local_audio_enabled, bc, delivered>>

\* mutant of enable_local_audio: switching audio on attaches a track to
\* every session of the map
enable_local_audio_Attach(m, enabled) ==
    /\ local_audio_enabled' = [local_audio_enabled EXCEPT ![m] = enabled]
    /\ peers' = [peers EXCEPT ![m] =
                    [p \in DOMAIN @ |->
                        [@[p] EXCEPT !.local_audio_track = @ \/ enabled]]]
    /\ UNCHANGED <<pcs, bc, delivered>>

enable_local_audio(m, enabled) ==
    /\ local_audio_enabled' = [local_audio_enabled EXCEPT ![m] = enabled]
    /\ UNCHANGED <<pcs, peers, bc, delivered>>

\* a transport after close(): signaling state and channel are closed, the
\* descriptions, the track and the callbacks are released
ClosedPc(pc) ==
    [owner |-> pc.owner, peer |-> "", role |-> "", sig |-> "closed",
     remote |-> 0, track |-> FALSE, chan |-> "closed", status |-> "closed"]

\* the spawned close task runs
close_task(h) ==
    /\ pcs[h].status = "closing"
    /\ pcs' = [pcs EXCEPT ![h] = ClosedPc(@)]
    /\ UNCHANGED <<peers, local_audio_enabled, bc, delivered>>

\* the two ends hold each other's description and neither is closed
Linked(h, g) ==
    /\ pcs[h].role = "offerer" /\ pcs[g].role = "answerer"
    /\ pcs[h].sig = "stable" /\ pcs[g].sig = "stable"
    /\ pcs[h].remote = g /\ pcs[g].remote = h
    /\ pcs[h].status # "closed" /\ pcs[g].status # "closed"

\* a negotiated transport whose other end is outside the model: whether and
\* when it gets through is up to the network
LinkedOutside(h) ==
    pcs[h].sig = "stable" /\ pcs[h].remote = External
        /\ pcs[h].status # "closed"

\* the transport of the offerer gets through: its channel opens (on_open)
transport_connect(h) ==
    /\ pcs[h].chan = "created"
    /\ LinkedOutside(h) \/ \E g \in Handles : Linked(h, g)
    /\ pcs' = [pcs EXCEPT ![h].chan = "open"]
    /\ UNCHANGED <<peers, local_audio_enabled, bc, delivered>>

\* the on_data_channel callback of the answering transport g: the channel
\* is stored in the entry found under the captured peer id, if any
on_data_channel(g) ==
    /\ pcs[g].chan = "none"
    /\ pcs[g].role = "answerer"
    /\ LinkedOutside(g)
         \/ \E h \in Handles : Linked(h, g) /\ pcs[h].chan = "open"
    /\ pcs' = [pcs EXCEPT ![g].chan = "open"]
    /\ LET m == pcs[g].owner
           p == pcs[g].peer
       IN peers' = IF HasSession(m, p)
                   THEN [peers EXCEPT ![m][p].data_channel = g]
                   ELSE peers
    /\ UNCHANGED <<local_audio_enabled, bc, delivered>>

\* the state of the session a transport belongs to, in the terms of the
\* connection lifecycle
SessionState(pc) ==
    IF pc.status # "live" THEN "Closed"
    ELSE IF pc.sig = "new" THEN "New"
    ELSE IF pc.sig = "have-local-offer" THEN "OfferSent"
    ELSE IF pc.sig = "have-remote-offer" THEN "OfferReceived"
    ELSE IF pc.role = "answerer" /\ pc.chan # "open" THEN "AnswerPending"
    ELSE "Connected"

\* is_connected: peers.values().any(|e| e.data_channel.is_some())
is_connected(m) ==
    \E p \in DOMAIN peers[m] : peers[m][p].data_channel # NoChannel

\* ----------------------------------------------------- mesh: actions
\* Spec explores every call of one manager; the other ends of its
\* transports are outside the model (External descriptions).
Caller == "A"
Faults == {"none", "early", "late"}
IoResults == {"ok", "send_failed"}

Init ==
    /\ MeshIdle
    /\ MixerIdle
    /\ JitterIdle
    /\ HandshakeIdle
    /\ StreamIdle
    /\ AppIdle
    /\ DspIdle

CreateOfferForPeer(p, fault) ==
    create_offer_for_peer(Caller, p, fault) /\ UNCHANGED notMesh

AcceptOfferFromPeer(p, blob, fault) ==
    accept_offer_from_peer(Caller, p, blob, fault) /\ UNCHANGED notMesh

AcceptAnswerFromPeer(p, blob) ==
    accept_answer_from_peer(Caller, p, blob) /\ UNCHANGED notMesh

SendToPeer(p) == send_to_peer(Caller, p) /\ UNCHANGED notMesh

SendAudioToPeer(p, io) ==
    send_audio_to_peer(Caller, p, io) /\ UNCHANGED notMesh

BroadcastStart(kind) == broadcast_start(Caller, kind) /\ UNCHANGED notMesh

BroadcastSend(e, io) == broadcast_send(Caller, e, io) /\ UNCHANGED notMesh

BroadcastReturn == broadcast_return(Caller) /\ UNCHANGED notMesh

RemovePeer(p) == remove_peer(Caller, p) /\ UNCHANGED notMesh

CloseAll == close_all(Caller) /\ UNCHANGED notMesh

EnableLocalAudio(enabled) ==
    enable_local_audio(Caller, enabled) /\ UNCHANGED notMesh

CloseTask(h) == close_task(h) /\ UNCHANGED notMesh

TransportConnect(h) == transport_connect(h) /\ UNCHANGED notMesh

OnDataChannel(g) == on_data_channel(g) /\ UNCHANGED notMesh

\* the session lifecycle of one manager under every input and fault; local
\* audio stays disabled
Next ==
    \/ \E p \in PeerIds, f \in Faults : CreateOfferForPeer(p, f)
    \/ \E p \in PeerIds, f \in Faults :
          \E blob \in OfferInputs(Caller) : AcceptOfferFromPeer(p, blob, f)
    \/ \E p \in PeerIds :
          \E blob \in AnswerInputs(Caller) : AcceptAnswerFromPeer(p, blob)
    \/ \E p \in PeerIds : SendToPeer(p)
    \/ \E p \in PeerIds : RemovePeer(p)
    \/ CloseAll
    \/ \E h \in Handles : CloseTask(h)
    \/ \E h \in Handles : TransportConnect(h)
    \/ \E g \in Handles : OnDataChannel(g)

Spec == Init /\ [][Next]_vars

\* Spec with the scheduler's guarantee: every task spawned with tokio::spawn
\* gets to run, so a dispatched close() completes
CloseFairness == \A h \in 1..MaxPcs : WF_vars(h \in Handles /\ CloseTask(h))

SpecFair == Init /\ [][Next]_vars /\ CloseFairness

\* sends and broadcasts of one manager over the sessions it offered,
\* negotiated without faults, local audio switched on and off
BroadcastInit ==
    /\ MeshIdle
    /\ MixerIdle
    /\ JitterIdle
    /\ HandshakeIdle
    /\ StreamIdle
    /\ AppIdle
    /\ DspIdle

BroadcastNext ==
    \/ \E p \in PeerIds : CreateOfferForPeer(p, "none")
    \/ \E p \in PeerIds : AcceptAnswerFromPeer(p, External)
    \/ \E p \in PeerIds : SendToPeer(p)
    \/ \E p \in PeerIds \cup {"p3"}, io \in IoResults : SendAudioToPeer(p, io)
    \/ \E kind \in {"msg", "audio"} : BroadcastStart(kind)
    \/ \E io \in IoResults :
          \E e \in bc[Caller].pending : BroadcastSend(e, io)
    \/ BroadcastReturn
    \/ \E p \in PeerIds : RemovePeer(p)
    \/ \E b \in BOOLEAN : EnableLocalAudio(b)
    \/ \E h \in Handles : CloseTask(h)
    \/ \E h \in Handles : TransportConnect(h)

SpecBroadcast == BroadcastInit /\ [][BroadcastNext]_vars

\* ------------------------------------------------ handshake scenario
\* Manager A offers to "p2"; manager B, whose transport is the other end,
\* accepts the offer under the id it knows A by; A accepts B's answer; then
\* A broadcasts chat messages.  The transports connect when the network
\* lets them, and either side may have switched its audio on beforehand.
HandshakeInit ==
    /\ MeshIdle
    /\ HandshakeIdle
    /\ StreamIdle
    /\ AppIdle
    /\ DspIdle
    /\ MixerIdle
    /\ JitterIdle

notHandshake == <<mixerVars, jitterVars, streamVars, dspVars, appVars>>

HsEnableLocalAudio(m, enabled) ==
    /\ hs_step = 0
    /\ enable_local_audio(m, enabled)
    /\ UNCHANGED <<handshakeVars, notHandshake>>

HsCreateOffer ==
    /\ hs_step = 0
    /\ create_offer_for_peer("A", "p2", "none")
    /\ hs_step' = 1
    /\ hs_res' = Append(hs_res, CreateOfferResult("none"))
    /\ UNCHANGED notHandshake

\* the offer B is handed is the one A's call returned
HsOffer == peers["A"]["p2"].pc

HsAcceptOffer(p) ==
    /\ hs_step = 1
    /\ accept_offer_from_peer("B", p, HsOffer, "none")
    /\ hs_step' = 2
    /\ hs_res' = Append(hs_res, AcceptOfferResult(HsOffer, "none"))
    /\ UNCHANGED notHandshake

\* B's only session, and the answer its call returned
HsPeerOfB == CHOOSE p \in DOMAIN peers["B"] : TRUE
HsAnswer == peers["B"][HsPeerOfB].pc

HsAcceptAnswer ==
    /\ hs_step = 2
    /\ accept_answer_from_peer("A", "p2", HsAnswer)
    /\ hs_step' = 3
    /\ hs_res' = Append(hs_res, AcceptAnswerResult("A", "p2", HsAnswer))
    /\ UNCHANGED notHandshake

HsTransportConnect(h) ==
    transport_connect(h) /\ UNCHANGED <<handshakeVars, notHandshake>>

HsOnDataChannel(g) ==
    on_data_channel(g) /\ UNCHANGED <<handshakeVars, notHandshake>>

HsBroadcastStart ==
    /\ hs_step >= 3
    /\ broadcast_start("A", "msg")
    /\ UNCHANGED <<handshakeVars, notHandshake>>

HsBroadcastSend(e) ==
    /\ broadcast_send("A", e, "ok")
    /\ UNCHANGED <<handshakeVars, notHandshake>>

HsBroadcastReturn ==
    /\ broadcast_return("A")
    /\ hs_step' = 4
    /\ hs_res' = IF hs_step = 3
                 THEN Append(hs_res, BroadcastResult(bc["A"])) ELSE hs_res
    /\ UNCHANGED notHandshake

HandshakeNext ==
    \/ \E m \in Managers, b \in BOOLEAN : HsEnableLocalAudio(m, b)
    \/ HsCreateOffer
    \/ \E p \in PeerIds : HsAcceptOffer(p)
    \/ HsAcceptAnswer
    \/ \E h \in Handles : HsTransportConnect(h)
    \/ \E g \in Handles : HsOnDataChannel(g)
    \/ HsBroadcastStart
    \/ \E e \in bc["A"].pending : HsBroadcastSend(e)
    \/ HsBroadcastReturn

SpecHandshake == HandshakeInit /\ [][HandshakeNext]_vars

\* ================================================= streaming: capture
\* audio/streaming.rs AudioStreamingService, the capture side.  A frame is
\* known by the RMS of its processed samples, in 1/Unit steps; a packet by
\* its timestamp and by the frame it was encoded from.
FrameRms == {0, 1, Unit}
Pollers == {1, 2}
NoPacket == [timestamp |-> 0 - 1, frame |-> 0]

\* rms_to_level: 20 log10(rms) mapped from [-60 dB, 0 dB] onto [0, 1] and
\* clamped.  The level is kept in thirds, rounded up: one third per decade.
rms_to_level(r) ==
    IF r * 1000 <= Unit THEN 0
    ELSE IF r * 100 <= Unit THEN 1
    ELSE IF r * 10 <= Unit THEN 2
    ELSE 3

\* rms > SPEAKING_THRESHOLD (0.02)
AboveSpeakingThreshold(r) == r * 50 > Unit

\* what start_capture returns.  res: "ok", "encoder" (OpusEncoder::new
\* fails), "device" (no such device, no config, stream not built or started)
StartCaptureResult(res) == IF is_capturing \/ res = "ok" THEN "ok" ELSE "err"

start_capture(res) ==
    IF is_capturing \/ res = "encoder"
    THEN UNCHANGED <<encoder, capture_stream, is_capturing, native>>
    ELSE IF res = "device"
    THEN /\ encoder' = TRUE
         /\ UNCHANGED <<capture_stream, is_capturing, native>>
    ELSE /\ encoder' = TRUE
         /\ capture_stream' = selected_input_device
         /\ native' = [native EXCEPT !["in"] =
                          @ + 1 - (IF capture_stream = NoStream THEN 0 ELSE 1)]
         /\ is_capturing' = TRUE

\* mutant of stop_capture: the flag is cleared, the stream is kept
stop_capture_KeepStream ==
    IF ~is_capturing
    THEN UNCHANGED <<encoder, capture_stream, is_capturing, native,
                     current_level>>
    ELSE /\ encoder' = FALSE
         /\ is_capturing' = FALSE
         /\ current_level' = 0
         /\ UNCHANGED <<capture_stream, native>>

stop_capture ==
    IF ~is_capturing
    THEN UNCHANGED <<encoder, capture_stream, is_capturing, native,
                     current_level>>
    ELSE /\ capture_stream' = NoStream
         /\ native' = [native EXCEPT !["in"] = @ - 1]
         /\ encoder' = FALSE
         /\ is_capturing' = FALSE
         /\ current_level' = 0

set_muted(muted) ==
    /\ is_muted' = muted
    /\ current_level' = IF muted THEN 0 ELSE current_level
    /\ unmuted_once' = (unmuted_once \/ ~muted)

\* mutant of LevelShown: the level is computed whatever the mute flag says
LevelShown_Raw(r, muted) == rms_to_level(r)

\* let level = if is_muted.load() { 0.0 } else { rms_to_level(rms) }
LevelShown(r, muted) == IF muted THEN 0 ELSE rms_to_level(r)

\* process_capture, one frame, up to the load of the mute flag: the level
\* is computed into a local
process_capture_level(r) ==
    /\ cb.step = "idle"
    /\ capture_stream # NoStream
    /\ captured < MaxFrames
    /\ captured' = captured + 1
    /\ cb' = [step |-> "computed", rms |-> r,
              level |-> LevelShown(r, is_muted), frame |-> captured + 1]

\* process_capture: *current_level.lock() = level, a step of its own after
\* the load of the flag
process_capture_store ==
    /\ cb.step = "computed"
    /\ current_level' = cb.level
    /\ cb' = [cb EXCEPT !.step = "level"]

\* process_capture, the level event (the app handle is set)
process_capture_emit ==
    /\ cb.step = "level"
    /\ emitted' = [level |-> cb.level,
                   is_speaking |-> ~is_muted /\ AboveSpeakingThreshold(cb.rms),
                   rms |-> cb.rms, frame |-> cb.frame]
    /\ cb' = [cb EXCEPT !.step = "emit"]

\* mutant of Encodes: the frame is encoded whatever the mute flag says
Encodes_Always(muted, enc, ok) == enc /\ ok

\* if !is_muted.load() { if let Some(enc) = .. { match enc.encode(..) { Ok
Encodes(muted, enc, ok) == ~muted /\ enc /\ ok

\* mutant of NextTimestamp: the counter also advances for a frame not sent
NextTimestamp_Always(ts, encoded) == ts + SAMPLES_PER_FRAME

\* *ts += SAMPLES_PER_FRAME, in the Ok arm only
NextTimestamp(ts, encoded) == IF encoded THEN ts + SAMPLES_PER_FRAME ELSE ts

\* process_capture, the rest of the frame: encode and queue.  ok: whether
\* enc.encode succeeds if it is called
process_capture_encode(ok) ==
    /\ cb.step = "emit"
    /\ LET encoded == Encodes(is_muted, encoder, ok)
           packet == [timestamp |-> timestamp, frame |-> cb.frame]
       IN /\ timestamp' = NextTimestamp(timestamp, encoded)
          /\ outgoing' = IF encoded THEN Append(outgoing, packet) ELSE outgoing
          /\ sent' = IF encoded THEN Append(sent, packet) ELSE sent
    /\ cb' = NoFrame

\* get_outgoing_packet: self.outgoing_audio_rx.lock()
get_outgoing_packet_lock(k) ==
    /\ rx_lock = 0
    /\ Len(got) < MaxPolls
    /\ rx_lock' = k

\* mutant of TryRecv: the packet is read and left in the channel
TryRecv_Peek(q) ==
    [packet |-> IF q = <<>> THEN NoPacket ELSE Head(q), rest |-> q]

\* rx.try_recv().ok()
TryRecv(q) ==
    IF q = <<>> THEN [packet |-> NoPacket, rest |-> q]
    ELSE [packet |-> Head(q), rest |-> Tail(q)]

\* get_outgoing_packet: try_recv under the lock, and the return
get_outgoing_packet_recv(k) ==
    /\ rx_lock = k
    /\ outgoing' = TryRecv(outgoing).rest
    /\ got' = Append(got, [by |-> k, packet |-> TryRecv(outgoing).packet])
    /\ rx_lock' = 0

\* ------------------------------------------------- capture: actions
CaptureFaults == {"ok", "encoder", "device"}

CaptureInit ==
    /\ StreamIdle
    /\ AppIdle
    /\ DspIdle
    /\ MixerIdle
    /\ JitterIdle
    /\ MeshIdle
    /\ HandshakeIdle

notCapture == <<deviceVars, receiveVars, notStream>>

StartCapture(res) ==
    /\ start_capture(res)
    /\ UNCHANGED <<is_muted, timestamp, outgoing, current_level, cb, emitted,
                   captured, unmuted_once, sent, rx_lock, got>>
    /\ UNCHANGED <<selected_input_device, selected_output_device, is_playing,
                   playback_stream, dev_call, receiveVars, notStream>>

StopCapture ==
    /\ stop_capture
    /\ UNCHANGED <<is_muted, timestamp, outgoing, cb, emitted, captured,
                   unmuted_once, sent, rx_lock, got>>
    /\ UNCHANGED <<selected_input_device, selected_output_device, is_playing,
                   playback_stream, dev_call, receiveVars, notStream>>

SetMuted(muted) ==
    /\ set_muted(muted)
    /\ UNCHANGED <<is_capturing, capture_stream, encoder, timestamp, outgoing,
                   cb, emitted, captured, sent, rx_lock, got, notCapture>>

CaptureLevel(r) ==
    /\ process_capture_level(r)
    /\ UNCHANGED <<is_capturing, capture_stream, is_muted, encoder, timestamp,
                   outgoing, current_level, emitted, unmuted_once, sent,
                   rx_lock, got, notCapture>>

CaptureStore ==
    /\ process_capture_store
    /\ UNCHANGED <<is_capturing, capture_stream, is_muted, encoder, timestamp,
                   outgoing, emitted, captured, unmuted_once, sent, rx_lock,
                   got, notCapture>>

CaptureEmit ==
    /\ process_capture_emit
    /\ UNCHANGED <<is_capturing, capture_stream, is_muted, encoder, timestamp,
                   outgoing, current_level, captured, unmuted_once, sent,
                   rx_lock, got, notCapture>>

CaptureEncode(ok) ==
    /\ process_capture_encode(ok)
    /\ UNCHANGED <<is_capturing, capture_stream, is_muted, encoder,
                   current_level, emitted, captured, unmuted_once, rx_lock,
                   got, notCapture>>

PollLock(k) ==
    /\ get_outgoing_packet_lock(k)
    /\ UNCHANGED <<is_capturing, capture_stream, is_muted, encoder, timestamp,
                   outgoing, current_level, cb, emitted, captured,
                   unmuted_once, sent, got, notCapture>>

PollRecv(k) ==
    /\ get_outgoing_packet_recv(k)
    /\ UNCHANGED <<is_capturing, capture_stream, is_muted, encoder, timestamp,
                   current_level, cb, emitted, captured, unmuted_once, sent,
                   notCapture>>

CaptureNext ==
    \/ \E res \in CaptureFaults : StartCapture(res)
    \/ StopCapture
    \/ \E muted \in BOOLEAN : SetMuted(muted)
    \/ \E r \in FrameRms : CaptureLevel(r)
    \/ CaptureStore
    \/ CaptureEmit
    \/ \E ok \in BOOLEAN : CaptureEncode(ok)
    \/ \E k \in Pollers : PollLock(k)
    \/ \E k \in Pollers : PollRecv(k)

SpecCapture == CaptureInit /\ [][CaptureNext]_vars

\* ================================================ streaming: playback
\* audio/streaming.rs AudioStreamingService, the receiving side.  Decoded
\* audio is kept by the frame: [peer, id] stands for the SAMPLES_PER_FRAME
\* samples decoded from the id-th packet received.
StreamPeers == {"p1", "p2"}
PlaybackFaults == {"ok", "device"}

StartPlaybackResult(res) == IF is_playing \/ res = "ok" THEN "ok" ELSE "err"

start_playback(res) ==
    IF is_playing \/ res = "device"
    THEN UNCHANGED <<playback_stream, is_playing, native>>
    ELSE /\ playback_stream' = selected_output_device
         /\ native' = [native EXCEPT !["out"] =
                          @ + 1 - (IF playback_stream = NoStream THEN 0 ELSE 1)]
         /\ is_playing' = TRUE

stop_playback ==
    IF ~is_playing
    THEN UNCHANGED <<playback_stream, is_playing, native, playback_buffer>>
    ELSE /\ playback_stream' = NoStream
         /\ native' = [native EXCEPT !["out"] = @ - 1]
         /\ is_playing' = FALSE
         /\ playback_buffer' = <<>>

\* the output callback, for one frame of output: buffer.pop() takes from
\* the end of the buffer
output_callback ==
    /\ playback_stream # NoStream
    /\ playback_buffer # <<>>
    /\ playback_buffer' = SubSeq(playback_buffer, 1, Len(playback_buffer) - 1)

\* peers.entry(peer_id).or_insert_with(..): the entry exists from here on
WithEntry(pp, p) == IF p \in DOMAIN pp THEN pp ELSE pp @@ (p :> <<>>)

\* while output.len() > SAMPLES_PER_FRAME * 20 { output.remove(0); }
RECURSIVE Limited(_)
Limited(output) ==
    IF Len(output) * SAMPLES_PER_FRAME > SAMPLES_PER_FRAME * PlaybackCapFrames
    THEN Limited(Tail(output))
    ELSE output

ReceivePeerAudioResult(decoded) == IF decoded THEN "ok" ELSE "err"

\* mutant of Decoded: a failed decode leaves its zero-filled output behind
Decoded_Anyway(frame, decoded) == <<frame>>

\* playback.decoder.decode(opus_data)?: the frame, or nothing and return
Decoded(frame, decoded) == IF decoded THEN <<frame>> ELSE <<>>

\* receive_peer_audio.  decoded: whether the decoder accepts the packet
receive_peer_audio(p, decoded) ==
    LET frame == [peer |-> p, id |-> rx_calls + 1]
        samples == Decoded(frame, decoded)
    IN /\ rx_calls < MaxReceives
       /\ rx_calls' = rx_calls + 1
       /\ peer_playback' =
             [WithEntry(peer_playback, p) EXCEPT ![p] = @ \o samples]
       /\ playback_buffer' = IF samples = <<>> THEN playback_buffer
                             ELSE Limited(playback_buffer \o samples)

\* AudioStreamingService::remove_peer
playback_remove_peer(p) ==
    /\ p \in DOMAIN peer_playback
    /\ peer_playback' =
          [q \in DOMAIN peer_playback \ {p} |-> peer_playback[q]]
    /\ UNCHANGED playback_buffer

clear_peers ==
    /\ peer_playback # <<>>
    /\ peer_playback' = <<>>
    /\ playback_buffer' = <<>>

\* ------------------------------------------------ playback: actions
ReceiveInit ==
    /\ StreamIdle
    /\ AppIdle
    /\ DspIdle
    /\ MixerIdle
    /\ JitterIdle
    /\ MeshIdle
    /\ HandshakeIdle

notPlayback == <<captureVars, selected_input_device, selected_output_device,
                 dev_call, notStream>>

StartPlayback(res) ==
    /\ start_playback(res)
    /\ UNCHANGED <<receiveVars, notPlayback>>

StopPlayback ==
    /\ stop_playback
    /\ UNCHANGED <<peer_playback, rx_calls, notPlayback>>

OutputCallback ==
    /\ output_callback
    /\ UNCHANGED <<peer_playback, rx_calls, playback_stream, is_playing,
                   native, notPlayback>>

ReceivePeerAudio(p, decoded) ==
    /\ receive_peer_audio(p, decoded)
    /\ UNCHANGED <<playback_stream, is_playing, native, notPlayback>>

PlaybackRemovePeer(p) ==
    /\ playback_remove_peer(p)
    /\ UNCHANGED <<rx_calls, playback_stream, is_playing, native, notPlayback>>

ClearPeers ==
    /\ clear_peers
    /\ UNCHANGED <<rx_calls, playback_stream, is_playing, native, notPlayback>>

ReceiveNext ==
    \/ \E res \in PlaybackFaults : StartPlayback(res)
    \/ StopPlayback
    \/ OutputCallback
    \/ \E p \in StreamPeers, decoded \in BOOLEAN : ReceivePeerAudio(p, decoded)
    \/ \E p \in StreamPeers : PlaybackRemovePeer(p)
    \/ ClearPeers

SpecReceive == ReceiveInit /\ [][ReceiveNext]_vars

\* ================================================= streaming: devices
\* set_input_device and set_output_device.  A call that finds its stream
\* active is two steps, around the settle delay, and other calls of the
\* service may run during the delay.
DeviceNames == {"default", "usb", "headset"}
Settling == [step |-> "settle"]

\* set_input_device up to the sleep
set_input_device_call(d) ==
    /\ dev_call["in"].step = "idle"
    /\ selected_input_device' = d
    /\ stop_capture
    /\ dev_call' = IF is_capturing THEN [dev_call EXCEPT !["in"] = Settling]
                   ELSE dev_call

\* set_input_device after the sleep: self.start_capture()?
set_input_device_restart(res) ==
    /\ dev_call["in"] = Settling
    /\ start_capture(res)
    /\ dev_call' = [dev_call EXCEPT !["in"] = [step |-> "idle"]]

\* set_output_device up to the sleep
set_output_device_call(d) ==
    /\ dev_call["out"].step = "idle"
    /\ selected_output_device' = d
    /\ stop_playback
    /\ dev_call' = IF is_playing THEN [dev_call EXCEPT !["out"] = Settling]
                   ELSE dev_call

\* set_output_device after the sleep: self.start_playback()?
set_output_device_restart(res) ==
    /\ dev_call["out"] = Settling
    /\ start_playback(res)
    /\ dev_call' = [dev_call EXCEPT !["out"] = [step |-> "idle"]]

\* ------------------------------------------------- devices: actions
DeviceInit ==
    /\ StreamIdle
    /\ AppIdle
    /\ DspIdle
    /\ MixerIdle
    /\ JitterIdle
    /\ MeshIdle
    /\ HandshakeIdle

captureRest == <<is_muted, timestamp, outgoing, cb, emitted, captured,
                 unmuted_once, sent, rx_lock, got>>

SetInputDeviceCall(d) ==
    /\ set_input_device_call(d)
    /\ UNCHANGED <<captureRest, selected_output_device, is_playing,
                   playback_stream, receiveVars, notStream>>

SetInputDeviceRestart(res) ==
    /\ set_input_device_restart(res)
    /\ UNCHANGED <<captureRest, current_level, selected_input_device,
                   selected_output_device, is_playing, playback_stream,
                   receiveVars, notStream>>

SetOutputDeviceCall(d) ==
    /\ set_output_device_call(d)
    /\ UNCHANGED <<captureVars, selected_input_device, peer_playback,
                   rx_calls, notStream>>

SetOutputDeviceRestart(res) ==
    /\ set_output_device_restart(res)
    /\ UNCHANGED <<captureVars, selected_input_device,
                   selected_output_device, receiveVars, notStream>>

DeviceNext ==
    \/ \E res \in CaptureFaults : StartCapture(res)
    \/ StopCapture
    \/ \E res \in PlaybackFaults : StartPlayback(res)
    \/ StopPlayback
    \/ \E d \in DeviceNames : SetInputDeviceCall(d)
    \/ \E res \in CaptureFaults : SetInputDeviceRestart(res)
    \/ \E d \in DeviceNames : SetOutputDeviceCall(d)
    \/ \E res \in PlaybackFaults : SetOutputDeviceRestart(res)

SpecDevice == DeviceInit /\ [][DeviceNext]_vars

\* ======================================================= resampling
\* audio/streaming.rs resample(samples, ratio).  The ratio is the fraction
\* ratio.num / ratio.den; indices are the code's, from 0; an output sample
\* is given in steps of 1 / ratio.num.
Ceil(a, b) == (a + b - 1) \div b

\* mutant of OutputLen: rounded down, plus one
OutputLen_FloorPlusOne(len, ratio) == (len * ratio.num) \div ratio.den + 1

\* (samples.len() as f64 * ratio).ceil() as usize
OutputLen(len, ratio) == Ceil(len * ratio.num, ratio.den)

\* (i as f64 / ratio).floor() as usize
IdxFloor(i, ratio) == (i * ratio.den) \div ratio.num

\* mutant of IdxCeil: the upper neighbour is not clamped
IdxCeil_Unclamped(i, len, ratio) == IdxFloor(i, ratio) + 1

\* (idx_floor + 1).min(samples.len().saturating_sub(1))
IdxCeil(i, len, ratio) ==
    Min(IdxFloor(i, ratio) + 1, IF len = 0 THEN 0 ELSE len - 1)

\* frac = src_idx - idx_floor, in steps of 1 / ratio.num
FracNum(i, ratio) == (i * ratio.den) % ratio.num

\* samples.get(idx): the sample, or nothing past the end
Get(samples, idx) ==
    IF idx < Len(samples) THEN <<samples[idx + 1]>> ELSE <<>>

\* one output sample: s1 + (s2 - s1) * frac, or 0.0 past the end
ResampleAt(samples, i, ratio) ==
    IF IdxFloor(i, ratio) < Len(samples)
    THEN LET s1 == samples[IdxFloor(i, ratio) + 1]
             got2 == Get(samples, IdxCeil(i, Len(samples), ratio))
             s2 == IF got2 = <<>> THEN s1 ELSE got2[1]
         IN s1 * ratio.num + (s2 - s1) * FracNum(i, ratio)
    ELSE 0

\* the source indices the call reads for output sample i
ReadsAt(len, i, ratio) ==
    IF IdxFloor(i, ratio) < len
    THEN {IdxFloor(i, ratio), IdxCeil(i, len, ratio)}
    ELSE {}

resample(samples, ratio) ==
    [k \in 1..OutputLen(Len(samples), ratio) |->
        ResampleAt(samples, k - 1, ratio)]

\* ------------------------------------------------ resampling: actions
ResampleSamples == {1, 5}
Ratios == { One, [num |-> 2, den |-> 1], [num |-> 1, den |-> 2],
            [num |-> 3, den |-> 2], [num |-> 2, den |-> 3] }

RECURSIVE SeqsUpTo(_, _)
SeqsUpTo(S, n) ==
    IF n = 0 THEN {<<>>}
    ELSE LET shorter == SeqsUpTo(S, n - 1)
         IN shorter \cup {Append(q, x) : q \in shorter, x \in S}

ResampleInit ==
    /\ rs_in \in SeqsUpTo(ResampleSamples, MaxResampleLen)
    /\ rs_ratio \in Ratios
    /\ rs_out = <<>>
    /\ rs_done = FALSE
    /\ LevelIdle
    /\ DenoiseIdle
    /\ EncodeIdle
    /\ MixerIdle
    /\ JitterIdle
    /\ MeshIdle
    /\ HandshakeIdle
    /\ StreamIdle
    /\ AppIdle

Resample ==
    /\ ~rs_done
    /\ rs_out' = resample(rs_in, rs_ratio)
    /\ rs_done' = TRUE
    /\ UNCHANGED <<rs_in, rs_ratio, levelVars, denoiseVars, encodeVars,
                   mixerVars, jitterVars, meshVars, handshakeVars, streamVars, appVars>>

ResampleNext == Resample

SpecResample == ResampleInit /\ [][ResampleNext]_vars

\* ================================================== noise suppressor
\* audio/denoise.rs AudioDenoiser.  nnnoiseless is outside the repository:
\* process_frame is taken to return the frame with every sample marked.
Invert(ratio) == [num |-> ratio.den, den |-> ratio.num]

\* a resampled sequence back in whole steps (the values are only carried)
Rescaled(q, ratio) == [k \in DOMAIN q |-> q[k] \div ratio.num]

\* self.state.process_frame(&mut output_frame, &input_frame)
process_frame(frame) == [k \in DOMAIN frame |-> frame[k] + 100]

\* resample_to_48k / resample_from_48k
resample_to_48k(d, samples) ==
    IF d.to_48k = One THEN samples
    ELSE Rescaled(resample(samples, d.to_48k), d.to_48k)

resample_from_48k(d, samples) ==
    IF d.to_48k = One THEN samples
    ELSE Rescaled(resample(samples, Invert(d.to_48k)), Invert(d.to_48k))

set_sample_rate(d, ratio) ==
    [d EXCEPT !.to_48k = ratio, !.input_buffer = <<>>, !.output_buffer = <<>>]

set_enabled(d, enabled) ==
    IF enabled THEN [d EXCEPT !.enabled = TRUE]
    ELSE [d EXCEPT !.enabled = FALSE, !.input_buffer = <<>>,
                   !.output_buffer = <<>>]

RECURSIVE ProcessFrames_DropTail(_, _)
\* mutant of ProcessFrames: what is left of the input after the last whole
\* frame is dropped
ProcessFrames_DropTail(input, output) ==
    IF Len(input) >= DENOISE_FRAME_SIZE
    THEN ProcessFrames_DropTail(
             SubSeq(input, DENOISE_FRAME_SIZE + 1, Len(input)),
             output \o process_frame(SubSeq(input, 1, DENOISE_FRAME_SIZE)))
    ELSE [input |-> <<>>, output |-> output]

RECURSIVE ProcessFrames(_, _)
\* while self.input_buffer.len() >= DENOISE_FRAME_SIZE { .. }
ProcessFrames(input, output) ==
    IF Len(input) >= DENOISE_FRAME_SIZE
    THEN ProcessFrames(SubSeq(input, DENOISE_FRAME_SIZE + 1, Len(input)),
                       output \o process_frame(SubSeq(input, 1, DENOISE_FRAME_SIZE)))
    ELSE [input |-> input, output |-> output]

\* mutant of Bypassed: the suppressor runs whether enabled or not
Bypassed_Never(d) == FALSE

\* if !self.enabled { return samples.to_vec(); }
Bypassed(d) == ~d.enabled

\* process(&mut self, samples): the samples returned, the denoiser afterwards
process(d, samples) ==
    IF Bypassed(d) THEN [result |-> samples, denoiser |-> d]
    ELSE LET buffered == d.input_buffer \o resample_to_48k(d, samples)
             done == ProcessFrames(buffered, d.output_buffer)
         IN [result |-> resample_from_48k(d, done.output),
             denoiser |-> [d EXCEPT !.input_buffer = done.input,
                                    !.output_buffer = <<>>]]

\* ------------------------------------------- noise suppressor: actions
DenoiseInputs == { <<1>>, <<5, 1>>, <<1, 5, 5>> }
DenoiseRatios == { One, [num |-> 2, den |-> 1] }

DenoiseInit ==
    /\ DenoiseIdle
    /\ LevelIdle
    /\ ResampleIdle
    /\ EncodeIdle
    /\ MixerIdle
    /\ JitterIdle
    /\ MeshIdle
    /\ HandshakeIdle
    /\ StreamIdle
    /\ AppIdle

notDenoise == <<levelVars, resampleVars, encodeVars, mixerVars, jitterVars,
                meshVars, handshakeVars, streamVars, appVars>>

DenoiseSetEnabled(enabled) ==
    /\ denoiser' = set_enabled(denoiser, enabled)
    /\ dn_fed' = IF enabled THEN dn_fed ELSE <<>>
    /\ dn_got' = IF enabled THEN dn_got ELSE <<>>
    /\ UNCHANGED <<dn_calls, dn_in, dn_out, notDenoise>>

DenoiseSetSampleRate(ratio) ==
    /\ denoiser' = set_sample_rate(denoiser, ratio)
    /\ dn_fed' = <<>>
    /\ dn_got' = <<>>
    /\ UNCHANGED <<dn_calls, dn_in, dn_out, notDenoise>>

DenoiseProcess(samples) ==
    /\ dn_calls < MaxProcess
    /\ dn_calls' = dn_calls + 1
    /\ denoiser' = process(denoiser, samples).denoiser
    /\ dn_in' = IF denoiser.enabled THEN dn_in ELSE dn_in \o samples
    /\ dn_out' = IF denoiser.enabled THEN dn_out
                 ELSE dn_out \o process(denoiser, samples).result
    /\ dn_fed' = IF denoiser.enabled /\ denoiser.to_48k = One
                 THEN dn_fed \o samples ELSE dn_fed
    /\ dn_got' = IF denoiser.enabled /\ denoiser.to_48k = One
                 THEN dn_got \o process(denoiser, samples).result ELSE dn_got
    /\ UNCHANGED notDenoise

DenoiseNext ==
    \/ \E enabled \in BOOLEAN : DenoiseSetEnabled(enabled)
    \/ \E ratio \in DenoiseRatios : DenoiseSetSampleRate(ratio)
    \/ \E samples \in DenoiseInputs : DenoiseProcess(samples)

SpecDenoise == DenoiseInit /\ [][DenoiseNext]_vars

\* ========================================================== encoder
\* audio/encoder.rs OpusEncoder::encode.  The input is known by its length;
\* whether the codec accepts a frame handed to it is an input.
\* mutant of LengthOk: longer inputs are let through as well
LengthOk_AtLeast(len) == len >= SAMPLES_PER_FRAME

\* samples.len() != SAMPLES_PER_FRAME returns the error
LengthOk(len) == len = SAMPLES_PER_FRAME

\* encode(&mut self, samples): the result, whether a packet was returned,
\* and the length handed to encode_float (0 - 1: not called)
encode(len, codec_ok) ==
    IF ~LengthOk(len)
    THEN [len |-> len, result |-> "err", packet |-> FALSE, codec |-> 0 - 1]
    ELSE IF ~codec_ok
    THEN [len |-> len, result |-> "err", packet |-> FALSE, codec |-> len]
    ELSE [len |-> len, result |-> "ok", packet |-> TRUE, codec |-> len]

\* --------------------------------------------------- encoder: actions
EncodeLens == 0..(SAMPLES_PER_FRAME + 2)

EncodeInit ==
    /\ EncodeIdle
    /\ LevelIdle
    /\ ResampleIdle
    /\ DenoiseIdle
    /\ MixerIdle
    /\ JitterIdle
    /\ MeshIdle
    /\ HandshakeIdle
    /\ StreamIdle
    /\ AppIdle

Encode(len, codec_ok) ==
    /\ Len(enc_log) < MaxEncodes
    /\ enc_log' = Append(enc_log, encode(len, codec_ok))
    /\ UNCHANGED <<pl_log, levelVars, resampleVars, denoiseVars, mixerVars,
                   jitterVars, meshVars, handshakeVars, streamVars, appVars>>

EncodeNext == \E len \in EncodeLens, codec_ok \in BOOLEAN : Encode(len, codec_ok)

SpecEncode == EncodeInit /\ [][EncodeNext]_vars

\* ============================================ capture: frame pipeline
\* audio/streaming.rs process_capture, what one frame goes through between
\* the device and the encoder: resample, denoise, fit to the frame length,
\* encode.  The device is known by the ratio 48 kHz / its sample rate.
\* let samples_per_frame = (sample_rate as usize * 20) / 1000
samples_per_frame(ratio) == (SAMPLES_PER_FRAME * ratio.den) \div ratio.num

Zeros(n) == [k \in 1..n |-> 0]

\* mutant of ToEncode: the processed frame is handed over as it is
ToEncode_AsIs(processed) == processed

\* let to_encode = if processed.len() == SAMPLES_PER_FRAME { processed }
\* else if longer { processed[..SAMPLES_PER_FRAME] } else { resize(.., 0.0) }
ToEncode(processed) ==
    IF Len(processed) = SAMPLES_PER_FRAME THEN processed
    ELSE IF Len(processed) > SAMPLES_PER_FRAME
    THEN SubSeq(processed, 1, SAMPLES_PER_FRAME)
    ELSE processed \o Zeros(SAMPLES_PER_FRAME - Len(processed))

\* resample to 48 kHz if needed, then denoiser.process
Processed(d, samples) ==
    LET samples_48k == IF d.to_48k # One
                       THEN Rescaled(resample(samples, d.to_48k), d.to_48k)
                       ELSE samples
    IN process(d, samples_48k)

\* ---------------------------------------------- frame pipeline: actions
PipelineRatios == { One, [num |-> 1, den |-> 2], [num |-> 3, den |-> 2] }
PipelineSamples == {1, 5}

\* start_capture has configured the denoiser for the device
PipelineInit ==
    /\ \E ratio \in PipelineRatios :
          denoiser = set_sample_rate(AudioDenoiserNew, ratio)
    /\ dn_calls = 0 /\ dn_in = <<>> /\ dn_out = <<>>
    /\ dn_fed = <<>> /\ dn_got = <<>>
    /\ EncodeIdle
    /\ LevelIdle
    /\ ResampleIdle
    /\ MixerIdle
    /\ JitterIdle
    /\ MeshIdle
    /\ HandshakeIdle
    /\ StreamIdle
    /\ AppIdle

\* the noise suppression switch, from the command thread
PipelineSetEnabled(enabled) ==
    /\ denoiser' = set_enabled(denoiser, enabled)
    /\ UNCHANGED <<dn_calls, dn_in, dn_out, dn_fed, dn_got, notDenoise>>

\* one frame of the device, every sample v; codec_ok: what the codec makes
\* of a frame handed to it
PipelineFrame(v, codec_ok) ==
    /\ Len(pl_log) < MaxEncodes
    /\ LET samples == [k \in 1..samples_per_frame(denoiser.to_48k) |-> v]
           done == Processed(denoiser, samples)
           to_encode == ToEncode(done.result)
       IN /\ denoiser' = done.denoiser
          /\ pl_log' = Append(pl_log,
                 [processed |-> done.result, to_encode |-> to_encode,
                  enc |-> encode(Len(to_encode), codec_ok)])
    /\ UNCHANGED <<dn_calls, dn_in, dn_out, dn_fed, dn_got, enc_log,
                   levelVars, resampleVars,
                   mixerVars, jitterVars, meshVars, handshakeVars, streamVars, appVars>>

PipelineNext ==
    \/ \E enabled \in BOOLEAN : PipelineSetEnabled(enabled)
    \/ \E v \in PipelineSamples, codec_ok \in BOOLEAN : PipelineFrame(v, codec_ok)

SpecPipeline == PipelineInit /\ [][PipelineNext]_vars

\* ===================================================== screen stream
\* commands/screen_stream.rs.  A streaming task is known by its place in
\* ss_tasks; its stop channel holds at most one signal.
\*   pc : "check" (at the head of the loop, or asleep before it), "frame"
\*        (capturing and encoding), "cleanup" (out of the loop), "done"
\* screen_stream_start up to the source check.  source: whether a screen
\* source is selected
screen_stream_start_check(source) ==
    /\ ss_call = NoCall
    /\ Len(ss_tasks) < MaxStreams
    /\ ss_call' = IF ss_is_streaming \/ ~source THEN NoCall
                  ELSE [op |-> "start"]
    /\ UNCHANGED <<ss_is_streaming, ss_stop_tx, ss_current_frame, ss_tasks,
                   ss_frames_sent, ss_active>>

\* screen_stream_start from the stop channel to Ok(()): the channel and the
\* flag are installed, the stats reset and the task spawned
screen_stream_start_spawn ==
    /\ ss_call = [op |-> "start"]
    /\ ss_stop_tx' = Len(ss_tasks) + 1
    /\ ss_is_streaming' = TRUE
    /\ ss_frames_sent' = 0
    /\ ss_tasks' = Append(ss_tasks, [pc |-> "check", signal |-> FALSE])
    /\ ss_active' = Len(ss_tasks) + 1
    /\ ss_call' = NoCall
    /\ UNCHANGED ss_current_frame

\* screen_stream_stop: the sender is read and the signal sent
screen_stream_stop_send ==
    /\ ss_call = NoCall
    /\ ss_tasks' = IF ss_stop_tx = 0 \/ ss_tasks[ss_stop_tx].pc = "done"
                   THEN ss_tasks
                   ELSE [ss_tasks EXCEPT ![ss_stop_tx].signal = TRUE]
    /\ ss_active' = 0
    /\ ss_call' = [op |-> "stop"]
    /\ UNCHANGED <<ss_is_streaming, ss_stop_tx, ss_current_frame,
                   ss_frames_sent>>

\* screen_stream_stop: the flag and the sender are cleared
screen_stream_stop_clear ==
    /\ ss_call = [op |-> "stop"]
    /\ ss_is_streaming' = FALSE
    /\ ss_stop_tx' = 0
    /\ ss_call' = NoCall
    /\ UNCHANGED <<ss_current_frame, ss_tasks, ss_frames_sent, ss_active>>

\* the task at the head of its loop:
\* if stop_rx.try_recv().is_ok() || !*is_streaming.read() { break; }
task_check(t) ==
    /\ ss_tasks[t].pc = "check"
    /\ ss_tasks' = [ss_tasks EXCEPT ![t] =
          IF @.signal \/ ~ss_is_streaming
          THEN [pc |-> "cleanup", signal |-> FALSE]
          ELSE [@ EXCEPT !.pc = "frame"]]
    /\ UNCHANGED <<ss_is_streaming, ss_stop_tx, ss_current_frame,
                   ss_frames_sent, ss_call, ss_active>>

\* the task captures and encodes one frame, then sleeps.  ok: whether the
\* capture and the encoding succeed
task_frame(t, ok) ==
    /\ ss_tasks[t].pc = "frame"
    /\ ss_frames_sent < MaxScreenFrames
    /\ ss_frames_sent' = IF ok THEN ss_frames_sent + 1 ELSE ss_frames_sent
    /\ ss_current_frame' = IF ok THEN t ELSE ss_current_frame
    /\ ss_tasks' = [ss_tasks EXCEPT ![t].pc = "check"]
    /\ UNCHANGED <<ss_is_streaming, ss_stop_tx, ss_call, ss_active>>

\* the task after its loop: the cleanup
task_cleanup(t) ==
    /\ ss_tasks[t].pc = "cleanup"
    /\ ss_is_streaming' = FALSE
    /\ ss_stop_tx' = 0
    /\ ss_current_frame' = 0
    /\ ss_tasks' = [ss_tasks EXCEPT ![t].pc = "done"]
    /\ UNCHANGED <<ss_frames_sent, ss_call, ss_active>>

\* ------------------------------------------------ screen stream: actions
ScreenInit == CoreIdle /\ AppIdle

notScreen ==
    <<coreVars, messageVars, voiceVars, outputVars, volumeVars, rtpVars>>

ScreenStartCheck(source) ==
    screen_stream_start_check(source) /\ UNCHANGED notScreen

ScreenStartSpawn == screen_stream_start_spawn /\ UNCHANGED notScreen

ScreenStopSend == screen_stream_stop_send /\ UNCHANGED notScreen

ScreenStopClear == screen_stream_stop_clear /\ UNCHANGED notScreen

TaskCheck(t) == task_check(t) /\ UNCHANGED notScreen

TaskFrame(t, ok) == task_frame(t, ok) /\ UNCHANGED notScreen

TaskCleanup(t) == task_cleanup(t) /\ UNCHANGED notScreen

ScreenNext ==
    \/ \E source \in BOOLEAN : ScreenStartCheck(source)
    \/ ScreenStartSpawn
    \/ ScreenStopSend
    \/ ScreenStopClear
    \/ \E t \in DOMAIN ss_tasks : TaskCheck(t)
    \/ \E t \in DOMAIN ss_tasks, ok \in BOOLEAN : TaskFrame(t, ok)
    \/ \E t \in DOMAIN ss_tasks : TaskCleanup(t)

SpecScreen == ScreenInit /\ [][ScreenNext]_vars

\* ================================================= message forwarding
\* webrtc/mesh_manager.rs (audio_mesh.rs is the same): where a text message
\* received on a control channel is forwarded.  A sender is known by the
\* order of its registration; 0 is None.
\*   handler : "none" (answerer side, channel not arrived yet), "set"
\*   tx      : the Option<MessageSender> the on_message closure owns
\* set_message_sender(tx)
set_message_sender(tx) ==
    /\ mm_message_tx' = tx
    /\ UNCHANGED <<mm_channels, mm_received>>

\* let tx = message_tx.read().clone(); dc.on_message(.. move ..)
Captured(message_tx) == message_tx

\* create_offer_for_peer: setup_data_channel on the channel just created
setup_data_channel ==
    /\ Len(mm_channels) < MaxChannels
    /\ mm_channels' = Append(mm_channels,
          [role |-> "offerer", handler |-> "set",
           tx |-> Captured(mm_message_tx)])
    /\ UNCHANGED <<mm_message_tx, mm_received>>

\* accept_offer_from_peer: the on_data_channel callback is registered, the
\* channel has not arrived
accept_offer_register ==
    /\ Len(mm_channels) < MaxChannels
    /\ mm_channels' = Append(mm_channels,
          [role |-> "answerer", handler |-> "none", tx |-> 0])
    /\ UNCHANGED <<mm_message_tx, mm_received>>

\* the on_data_channel callback: the message handler is set on the channel
on_data_channel_handler(c) ==
    /\ mm_channels[c].handler = "none"
    /\ mm_channels' = [mm_channels EXCEPT
          ![c] = [@ EXCEPT !.handler = "set",
                           !.tx = Captured(mm_message_tx)]]
    /\ UNCHANGED <<mm_message_tx, mm_received>>

\* the on_message handler of channel c, for a message that is valid UTF-8:
\* if let Some(ref sender) = tx { sender.send(text) }
on_message(c) ==
    /\ mm_channels[c].handler = "set"
    /\ Len(mm_received) < MaxMessages
    /\ mm_received' = Append(mm_received,
          [channel |-> c, role |-> mm_channels[c].role,
           sent_to |-> mm_channels[c].tx, registered |-> mm_message_tx])
    /\ UNCHANGED <<mm_message_tx, mm_channels>>

\* -------------------------------------------- message forwarding: actions
MessageInit == CoreIdle /\ AppIdle

notMessage ==
    <<coreVars, screenVars, voiceVars, outputVars, volumeVars, rtpVars>>

SetMessageSender(tx) == set_message_sender(tx) /\ UNCHANGED notMessage

SetupDataChannel == setup_data_channel /\ UNCHANGED notMessage

AcceptOfferRegister == accept_offer_register /\ UNCHANGED notMessage

OnDataChannelHandler(c) == on_data_channel_handler(c) /\ UNCHANGED notMessage

OnMessage(c) == on_message(c) /\ UNCHANGED notMessage

MessageNext ==
    \/ \E tx \in 1..MaxSenders : SetMessageSender(tx)
    \/ SetupDataChannel
    \/ AcceptOfferRegister
    \/ \E c \in DOMAIN mm_channels : OnDataChannelHandler(c)
    \/ \E c \in DOMAIN mm_channels : OnMessage(c)

SpecMessage == MessageInit /\ [][MessageNext]_vars

\* ===================================================== voice commands
\* commands/audio.rs audio_start_voice, audio_stop_voice,
\* audio_set_input_device, audio_cleanup over audio/realtime.rs
\* RealtimeCapture.  The commands are taken one at a time.  The denoiser
\* of the capture is modelled with the noise suppressor.
\* RealtimeCapture::start.  res: "ok", or "device" (no such device, no
\* config, stream not built or not started)
RealtimeStartResult(res) == IF rc_is_capturing \/ res = "ok" THEN "ok" ELSE "err"

realtime_start(res) ==
    IF rc_is_capturing
    THEN UNCHANGED <<rc_is_capturing, rc_stream, rc_app_handle>>
    ELSE /\ rc_app_handle' = TRUE
         /\ IF res = "ok"
            THEN rc_stream' = rc_selected_device /\ rc_is_capturing' = TRUE
            ELSE UNCHANGED <<rc_is_capturing, rc_stream>>

\* RealtimeCapture::stop
realtime_stop ==
    IF ~rc_is_capturing THEN UNCHANGED <<rc_is_capturing, rc_stream>>
    ELSE rc_stream' = "none" /\ rc_is_capturing' = FALSE

\* what RealtimeCapture::set_input_device returns.  res: how the restart
\* goes if there is one
SetInputDeviceResult(res) ==
    IF rc_is_capturing /\ rc_app_handle /\ res # "ok" THEN "err" ELSE "ok"

\* RealtimeCapture::set_input_device: the device is stored; a running
\* capture is stopped and started again on the new device
realtime_set_input_device(name, res) ==
    /\ rc_selected_device' = name
    /\ IF rc_is_capturing /\ rc_app_handle /\ res = "ok"
       THEN rc_stream' = name /\ rc_is_capturing' = TRUE
       ELSE IF rc_is_capturing
       THEN rc_stream' = "none" /\ rc_is_capturing' = FALSE
       ELSE UNCHANGED <<rc_is_capturing, rc_stream>>
    /\ UNCHANGED rc_app_handle

audio_start_voice(res) ==
    IF av_is_voice_active
    THEN /\ av_returned' = [op |-> "start", res |-> "ok"]
         /\ UNCHANGED <<av_is_voice_active, rc_is_capturing, rc_stream,
                        rc_app_handle>>
    ELSE /\ realtime_start(res)
         /\ av_is_voice_active' = (RealtimeStartResult(res) = "ok")
         /\ av_returned' = [op |-> "start", res |-> RealtimeStartResult(res)]

audio_stop_voice ==
    /\ realtime_stop
    /\ av_is_voice_active' = FALSE
    /\ av_returned' = [op |-> "stop", res |-> "ok"]

audio_set_input_device(name, res) ==
    /\ realtime_set_input_device(name, res)
    /\ av_returned' = [op |-> "set_input_device",
                       res |-> SetInputDeviceResult(res)]

\* audio_set_mute: realtime.set_muted(muted)
audio_set_mute(muted) ==
    /\ rc_is_muted' = muted
    /\ av_returned' = [op |-> "set_mute", res |-> "ok"]

\* audio_set_noise_suppression: realtime.set_noise_suppression(enabled)
audio_set_noise_suppression(enabled) ==
    /\ rc_noise_suppression' = enabled
    /\ av_returned' = [op |-> "set_noise_suppression", res |-> "ok"]

\* audio_cleanup: realtime.stop(), the flag, mixer.clear()
audio_cleanup ==
    /\ realtime_stop
    /\ av_is_voice_active' = FALSE
    /\ mixer' = clear(mixer)
    /\ av_returned' = [op |-> "cleanup", res |-> "ok"]

\* ------------------------------------------------ voice commands: actions
VoiceInit == CoreIdle /\ AppIdle

notVoice == <<jitterVars, meshVars, handshakeVars, streamVars, dspVars,
              screenVars, messageVars, outputVars, volumeVars, rtpVars>>

rcSwitches == <<rc_is_muted, rc_noise_suppression>>

AudioStartVoice(res) ==
    /\ audio_start_voice(res)
    /\ UNCHANGED <<rc_selected_device, rcSwitches, mixerVars, notVoice>>

AudioStopVoice ==
    /\ audio_stop_voice
    /\ UNCHANGED <<rc_selected_device, rc_app_handle, rcSwitches, mixerVars,
                   notVoice>>

AudioSetInputDevice(name, res) ==
    /\ audio_set_input_device(name, res)
    /\ UNCHANGED <<av_is_voice_active, rcSwitches, mixerVars, notVoice>>

AudioSetMute(muted) ==
    /\ audio_set_mute(muted)
    /\ UNCHANGED <<av_is_voice_active, rc_is_capturing, rc_stream,
                   rc_selected_device, rc_app_handle, rc_noise_suppression,
                   mixerVars, notVoice>>

AudioSetNoiseSuppression(enabled) ==
    /\ audio_set_noise_suppression(enabled)
    /\ UNCHANGED <<av_is_voice_active, rc_is_capturing, rc_stream,
                   rc_selected_device, rc_app_handle, rc_is_muted,
                   mixerVars, notVoice>>

AudioCleanup ==
    /\ audio_cleanup
    /\ UNCHANGED <<rc_selected_device, rc_app_handle, rcSwitches, mixed,
                   mx_adds, mx_sets, notVoice>>

VoiceNext ==
    \/ \E res \in PlaybackFaults : AudioStartVoice(res)
    \/ AudioStopVoice
    \/ \E name \in DeviceNames, res \in PlaybackFaults :
          AudioSetInputDevice(name, res)
    \/ \E muted \in BOOLEAN : AudioSetMute(muted)
    \/ \E enabled \in BOOLEAN : AudioSetNoiseSuppression(enabled)
    \/ AudioCleanup

SpecVoice == VoiceInit /\ [][VoiceNext]_vars

\* ==================================================== audio playback
\* audio/playback.rs AudioPlayback.  The device asks for DataLen samples at
\* a time (buffer_size Fixed(SAMPLES_PER_FRAME), one channel); 0 in
\* pb_played is a sample of silence.
DataLen == SAMPLES_PER_FRAME

\* the next n samples handed to the playback
Fresh(n) == [k \in 1..n |-> pb_count + k]

\* push_samples(samples)
push_samples(n) ==
    /\ pb_count + n <= MaxPlaySamples
    /\ pb_buffer' = pb_buffer \o Fresh(n)
    /\ pb_count' = pb_count + n
    /\ UNCHANGED pb_played

\* the output callback when buf.len() >= data.len(): pop_front for each
FromBuffer(buf) ==
    [data |-> SubSeq(buf, 1, DataLen),
     buf |-> SubSeq(buf, DataLen + 1, Len(buf))]

\* the output callback otherwise: the samples of get_samples() are copied
\* out, the rest is silence, the excess goes to the back of the buffer
FromCallback(buf, samples) ==
    LET copy_len == Min(Len(samples), DataLen)
    IN [data |-> SubSeq(samples, 1, copy_len) \o Zeros(DataLen - copy_len),
        buf |-> buf \o SubSeq(samples, DataLen + 1, Len(samples))]

\* the output callback.  n: how many samples get_samples() returns
playback_callback(n) ==
    /\ Len(pb_played) < MaxCallbacks * DataLen
    /\ IF Len(pb_buffer) >= DataLen
       THEN /\ pb_played' = pb_played \o FromBuffer(pb_buffer).data
            /\ pb_buffer' = FromBuffer(pb_buffer).buf
            /\ UNCHANGED pb_count
       ELSE /\ pb_count + n <= MaxPlaySamples
            /\ pb_played' = pb_played \o FromCallback(pb_buffer, Fresh(n)).data
            /\ pb_buffer' = FromCallback(pb_buffer, Fresh(n)).buf
            /\ pb_count' = pb_count + n

\* ------------------------------------------------ audio playback: actions
OutputInit == CoreIdle /\ AppIdle

notOutput ==
    <<coreVars, screenVars, messageVars, voiceVars, volumeVars, rtpVars>>

PushSamples(n) == push_samples(n) /\ UNCHANGED notOutput

PlaybackCallback(n) == playback_callback(n) /\ UNCHANGED notOutput

OutputNext ==
    \/ \E n \in 1..(DataLen + 1) : PushSamples(n)
    \/ \E n \in 0..(DataLen + 1) : PlaybackCallback(n)

SpecOutput == OutputInit /\ [][OutputNext]_vars

\* ==================================================== master volume
\* commands/audio.rs audio_set_master_volume, audio_get_master_volume.
\* The command takes the master_volume lock and the mixer lock one after
\* the other; a caller is between the two when its pc is "stored".

\* audio_set_master_volume, up to the release of the master_volume lock
audio_set_master_volume_store(c, volume) ==
    /\ vol_calls[c].pc = "idle"
    /\ vol_count < MaxVolumeCalls
    /\ av_master_volume' = ClampGain(volume)
    /\ vol_calls' = [vol_calls EXCEPT
                       ![c] = [pc |-> "stored", clamped |-> ClampGain(volume)]]
    /\ vol_count' = vol_count + 1
    /\ UNCHANGED mixer

\* audio_set_master_volume, the mixer lock; the command returns
audio_set_master_volume_apply(c) ==
    /\ vol_calls[c].pc = "stored"
    /\ mixer' = set_master_volume(mixer, vol_calls[c].clamped)
    /\ vol_calls' = [vol_calls EXCEPT ![c] = [pc |-> "idle"]]
    /\ UNCHANGED <<av_master_volume, vol_count>>

\* audio_get_master_volume
audio_get_master_volume == av_master_volume

\* --------------------------------------------------- master volume: actions
VolumeInit == CoreIdle /\ AppIdle

notVolume == <<jitterVars, meshVars, handshakeVars, streamVars, dspVars,
               screenVars, messageVars, voiceVars, outputVars, rtpVars>>

VolumeInputs == {0 - 2, 3, 7, 12}

AudioSetMasterVolumeStore(c, volume) ==
    /\ audio_set_master_volume_store(c, volume)
    /\ UNCHANGED <<mixed, mx_adds, mx_sets, notVolume>>

AudioSetMasterVolumeApply(c) ==
    /\ audio_set_master_volume_apply(c)
    /\ UNCHANGED <<mixed, mx_adds, mx_sets, notVolume>>

VolumeNext ==
    \/ \E c \in VolumeCallers, volume \in VolumeInputs :
          AudioSetMasterVolumeStore(c, volume)
    \/ \E c \in VolumeCallers : AudioSetMasterVolumeApply(c)
    \/ AudioCleanup

SpecVolume == VolumeInit /\ [][VolumeNext]_vars

\* ==================================================== rtp audio track
\* webrtc/audio_track.rs LocalAudioTrack.
SAMPLES_PER_RTP_PACKET == 960
Half == 65536

\* u16::wrapping_add(1)
WrappingAdd16_NoWrap(seq) == seq + 1
WrappingAdd16(seq) == (seq + 1) % Half

\* u32::wrapping_add(n), n < 2^16, on the two halves
WrappingAdd32(ts, n) ==
    U32((ts.hi + ((ts.lo + n) \div Half)) % Half, (ts.lo + n) % Half)

\* send_audio, the block that holds both locks: the packet takes the current
\* counters, then both advance
send_audio_build(c) ==
    /\ rtp_calls[c].pc = "idle"
    /\ Len(rtp_packets) < MaxSends
    /\ LET packet == [sequence_number |-> rtp_sequence_number,
                      timestamp |-> rtp_timestamp]
       IN /\ rtp_packets' = Append(rtp_packets, packet)
          /\ rtp_calls' = [rtp_calls EXCEPT
                             ![c] = [pc |-> "built", packet |-> packet]]
    /\ rtp_sequence_number' = WrappingAdd16(rtp_sequence_number)
    /\ rtp_timestamp' = WrappingAdd32(rtp_timestamp, SAMPLES_PER_RTP_PACKET)
    /\ UNCHANGED rtp_results

\* send_audio, track.write_rtp(&packet).await and the return
send_audio_write(c, ok) ==
    /\ rtp_calls[c].pc = "built"
    /\ rtp_results' = Append(rtp_results,
                             [packet |-> rtp_calls[c].packet, ok |-> ok])
    /\ rtp_calls' = [rtp_calls EXCEPT ![c] = [pc |-> "idle"]]
    /\ UNCHANGED <<rtp_sequence_number, rtp_timestamp, rtp_packets>>

\* ------------------------------------------------- rtp audio track: actions
\* a track that has sent some packets already: the sequence number counts
\* from 0, the timestamp from a random u32
RtpSequenceStarts == {0, Half - 2}
RtpTimestampStarts ==
    {U32(0, 0), U32(1234, Half - 1000), U32(Half - 1, Half - 1000),
     U32(Half - 1, Half - 3000)}

RtpInit ==
    /\ CoreIdle
    /\ AppOtherIdle
    /\ rtp_sequence_number \in RtpSequenceStarts
    /\ rtp_timestamp \in RtpTimestampStarts
    /\ rtp_calls = [c \in RtpCallers |-> [pc |-> "idle"]]
    /\ rtp_packets = <<>>
    /\ rtp_results = <<>>

notRtp == <<coreVars, screenVars, messageVars, voiceVars, outputVars,
            volumeVars>>

SendAudioBuild(c) == send_audio_build(c) /\ UNCHANGED notRtp

SendAudioWrite(c, ok) == send_audio_write(c, ok) /\ UNCHANGED notRtp

RtpNext ==
    \/ \E c \in RtpCallers : SendAudioBuild(c)
    \/ \E c \in RtpCallers, ok \in BOOLEAN : SendAudioWrite(c, ok)

SpecRtp == RtpInit /\ [][RtpNext]_vars

\* ======================================================== claims: mixer
\* the cap of one peer's buffer, and the newest part of a sequence within it
BufferCap == 2 * JITTER_BUFFER_FRAMES * SAMPLES_PER_FRAME
NewestWithinCap(all) ==
    SubSeq(all, Len(all) - Min(Len(all), BufferCap) + 1, Len(all))

ActivePeers(m) ==
    {p \in DOMAIN m.peers :
        ~m.peers[p].muted /\ Len(m.peers[p].samples) >= SAMPLES_PER_FRAME}

\* C4: in a mix call the normalisation factor is 1/sqrt(k), k the number of
\* active peers of this call, and 1 when k <= 1: every output sample is the
\* gain-weighted sum of the active peers' samples divided by sqrt(k), times
\* the master volume, clamped.
C4_NormByActiveCount ==
    [][GetMixedSamples =>
        LET k == Cardinality(ActivePeers(mixer))
            root == IF k > 1 THEN k ELSE 1
        IN \A i \in 1..SAMPLES_PER_FRAME :
             SameAmp(mixed'[i],
                     ClampOut(SumAt(mixer, ActivePeers(mixer), i),
                              mixer.master_volume, root))]_vars

\* a peer the claim calls skipped, and the mixer with the skipped peers'
\* buffers emptied (they stay registered)
Skipped(b) == b.muted \/ Len(b.samples) < SAMPLES_PER_FRAME
SkippedEmptied(m) ==
    [m EXCEPT !.peers =
        [p \in DOMAIN m.peers |->
            IF Skipped(m.peers[p])
            THEN [m.peers[p] EXCEPT !.samples = <<>>]
            ELSE m.peers[p]]]

\* C5: a mix call leaves every skipped peer (muted, or holding less than one
\* frame) exactly as it was, and the output is the one the call would give
\* had the skipped peers held no samples at all.
C5_SkippedPeerUntouched ==
    [][GetMixedSamples =>
        /\ \A p \in DOMAIN mixer.peers :
              Skipped(mixer.peers[p]) =>
                  /\ p \in DOMAIN mixer'.peers
                  /\ mixer'.peers[p] = mixer.peers[p]
        /\ mixed' = get_mixed_samples(SkippedEmptied(mixer)).output]_vars

\* the burst left one sample behind after five mixes, a sixth mix found the
\* peer underrunning (silent output) and the sample is still there
C5_Witness ==
    /\ mx_adds = 1 /\ mx_sets = 0
    /\ DOMAIN mixer.peers = {"p1"}
    /\ Len(mixer.peers["p1"].samples) = 1
    /\ mixed = [i \in 1..SAMPLES_PER_FRAME |-> Silence]

\* C6: after add_peer_samples(p, s) the buffer of p holds at most
\* 2 x JITTER_BUFFER_FRAMES frames and is the newest part, within that cap,
\* of its previous contents followed by s, in the same order; no other peer
\* is touched.
C6_AddKeepsNewest ==
    [][\A p \in MixPeers, s \in SampleInputs :
        AddPeerSamples(p, s) =>
            /\ Len(mixer'.peers[p].samples) <= BufferCap
            /\ mixer'.peers[p].samples =
                  NewestWithinCap(EntryOrNew(mixer, p).samples \o s)
            /\ \A q \in DOMAIN mixer.peers \ {p} :
                  mixer'.peers[q] = mixer.peers[q]]_vars

\* a buffer filled to the cap whose oldest sample (the burst's 1) is gone
C6_Witness ==
    \E p \in DOMAIN mixer.peers :
        /\ Len(mixer.peers[p].samples) = BufferCap
        /\ Head(mixer.peers[p].samples) # 1

\* ========================================================= claims: mesh
\* the session of manager m for peer p
SessionOf(m, p) == pcs[peers[m][p].pc]

\* ----------------------------------------------------------------- C1
HsSessionA == SessionOf("A", "p2")
HsSessionB == SessionOf("B", HsPeerOfB)
HsAllOk == \A i \in DOMAIN hs_res : hs_res[i] = "ok"

\* C1 as stated: once the three calls have been made and A's broadcast has
\* returned, every call has succeeded, both sessions are Connected and the
\* message has arrived at B's session.
C1_HandshakeDelivers ==
    hs_step = 4 =>
        /\ HsAllOk
        /\ SessionState(HsSessionA) = "Connected"
        /\ SessionState(HsSessionB) = "Connected"
        /\ HsAnswer \in delivered

\* what holds once the three calls have returned
HsAfterCalls ==
    hs_step >= 3 =>
        /\ HsAllOk
        /\ SessionState(HsSessionA) = "Connected"
        /\ SessionState(HsSessionB) \in {"AnswerPending", "Connected"}
        /\ SessionState(HsSessionB) = "Connected"
             <=> peers["B"][HsPeerOfB].data_channel = HsAnswer
        /\ HsAnswer \in delivered => pcs[HsOffer].chan = "open"

\* what the scripted steps do
HsSteps ==
    /\ HsAcceptAnswer =>
          /\ SessionState(HsSessionA)' = "Connected"
          /\ SessionState(HsSessionB)' = "AnswerPending"
    /\ \A g \in Handles :
          HsOnDataChannel(g) => SessionState(HsSessionB)' = "Connected"
    /\ \A e \in bc["A"].pending :
          HsBroadcastSend(e) =>
              (HsAnswer \in delivered') <=> ChannelOpen(HsOffer)
    /\ HsBroadcastReturn => BroadcastResult(bc["A"]) = "ok"

\* C1, amended: the three calls succeed; when they have returned A's session
\* is Connected and B's is AnswerPending; B's session becomes Connected when
\* the transport delivers the inbound control channel; a chat message A
\* broadcasts afterwards reaches B's session exactly if A's control channel
\* has opened by the time it is sent, and the broadcast returns Ok either way.
C1_Handshake == []HsAfterCalls /\ [][HsSteps]_vars

\* the broadcast has returned Ok and the message was not delivered
C1_Witness ==
    /\ hs_step = 4
    /\ HsAllOk
    /\ Len(hs_res) = 4
    /\ HsAnswer \notin delivered
    /\ SessionState(HsSessionB) = "AnswerPending"

\* ----------------------------------------------------------------- C2
AnyPeerIds == PeerIds \cup {"p3"}

\* C2 as stated: for a peer id without a session, send_to_peer,
\* send_audio_to_peer and accept_answer_from_peer each return an error.
C2_NoSessionErrors ==
    \A p \in AnyPeerIds :
        ~HasSession(Caller, p) =>
            /\ SendText(Caller, p) # "ok"
            /\ AcceptAnswerResult(Caller, p, External) = "no_session"
            /\ SendAudioResult(Caller, p, "ok") # "ok"

Rank(st) ==
    CASE st = "New" -> 0
      [] st \in {"OfferSent", "OfferReceived"} -> 1
      [] st = "AnswerPending" -> 2
      [] st = "Connected" -> 3
      [] st = "Closed" -> 4

\* no session goes back along the chain
ChainOrder ==
    \A h \in Handles :
        Rank(SessionState(pcs[h])) <= Rank(SessionState(pcs'[h]))

\* accept_answer_from_peer succeeds only on a session in OfferSent, which it
\* moves to Connected; otherwise it leaves every session as it is
AnswerOnlyFromOfferSent ==
    \A p \in PeerIds, blob \in AnswerInputs(Caller) :
        AcceptAnswerFromPeer(p, blob) =>
            IF AcceptAnswerResult(Caller, p, blob) = "ok"
            THEN /\ SessionState(SessionOf(Caller, p)) = "OfferSent"
                 /\ SessionState(SessionOf(Caller, p))' = "Connected"
            ELSE pcs' = pcs

AudioTargets == {e.peer : e \in Snapshot(Caller, "audio")}

\* C9 as stated: with local audio enabled, broadcast_audio sends to every
\* peer of the map, whenever that peer's session was created.
C9_AudioToEveryPeer ==
    local_audio_enabled[Caller] => AudioTargets = DOMAIN peers[Caller]

\* ---------------------------------------------------------------- C10
\* a session whose creating call returned an error after storing it
Failed(pc) == pc.status = "live" /\ pc.sig \in {"new", "have-remote-offer"}

FailedSessions ==
    {p \in DOMAIN peers[Caller] : Failed(SessionOf(Caller, p))}

Kept(p) ==
    HasSession(Caller, p)' /\ peers'[Caller][p].pc = peers[Caller][p].pc

Discarded(p) ==
    ~HasSession(Caller, p)' /\ pcs'[peers[Caller][p].pc].status = "closing"

Replaced(p) ==
    /\ Len(pcs') = Len(pcs) + 1
    /\ HasSession(Caller, p)'
    /\ peers'[Caller][p].pc = Len(pcs')

StoredBeforeFailure ==
    Len(pcs') = Len(pcs) + 1 =>
        LET h == Len(pcs')
        IN /\ pcs'[h].peer \in DOMAIN peers'[Caller]
           /\ peers'[Caller][pcs'[h].peer].pc = h

MalformedAnswerChangesNothing ==
    \A p \in PeerIds :
        AcceptAnswerFromPeer(p, Malformed) => UNCHANGED <<peers, pcs>>

\* no answer completes a failed session
FailedUnusable ==
    \A p \in FailedSessions, blob \in AnswerInputs(Caller) :
        AcceptAnswerResult(Caller, p, blob) \notin {"ok", "no_session"}

Held(h) == \E p \in DOMAIN peers[Caller] : peers[Caller][p].pc = h

\* C11 as stated: remove_peer and close_all leave no session behind, and
\* every transport ever created that is not held by a session of the map is
\* eventually closed.
C11_HeldOrClosed ==
    /\ [][(\A p \in PeerIds : RemovePeer(p) => ~HasSession(Caller, p)')
            /\ (CloseAll => peers'[Caller] = <<>>)]_vars
    /\ \A h \in 1..MaxPcs :
          [](h \in Handles /\ ~Held(h)
                => <>(h \in Handles /\ pcs[h].status = "closed"))

\* ===================================================== claims: streaming
\* C12: a captured frame whose encode step runs while the service is muted
\* puts no packet in the outgoing queue and leaves the timestamp counter
\* where it was; the service starts muted, so no packet is ever queued
\* before the first set_muted(false).
C12_MutedSendsNothing ==
    /\ [](sent # <<>> => unmuted_once)
    /\ [][\A ok \in BOOLEAN :
             (CaptureEncode(ok) /\ is_muted) => UNCHANGED <<outgoing, timestamp, sent>>]_vars

\* a frame went through the whole callback on a service never unmuted
C12_Witness ==
    /\ captured > 0
    /\ cb = NoFrame
    /\ encoder
    /\ ~unmuted_once
    /\ timestamp = 0

\* C13: the packets enter the outgoing queue with timestamps that start at 0
\* and are each exactly SAMPLES_PER_FRAME greater than the one before,
\* whatever frames, mute toggles, encode failures and capture stops and
\* restarts happened in between; the queue holds its packets in timestamp
\* order.
C13_TimestampsConsecutive ==
    /\ \A i \in 1..Len(sent) :
          sent[i].timestamp = (i - 1) * SAMPLES_PER_FRAME
    /\ \A i \in 1..(Len(outgoing) - 1) :
          outgoing[i + 1].timestamp = outgoing[i].timestamp + SAMPLES_PER_FRAME
    /\ timestamp = Len(sent) * SAMPLES_PER_FRAME

\* two packets queued around a frame that produced none, capture stopped
C13_Witness ==
    /\ Len(sent) = 2
    /\ sent[1].frame = 1
    /\ sent[2].frame = 3
    /\ Len(outgoing) = 2
    /\ ~is_capturing

\* C14 as stated: once set_muted(true) has been called while capturing, the
\* next level event has level = 0 and rms = 0, whatever was captured.
C14_MutedEventAllZero ==
    [][(CaptureEmit /\ is_muted /\ unmuted_once /\ is_capturing)
          => (emitted'.level = 0 /\ emitted'.rms = 0)]_vars

\* C14: a frame whose level is computed while the service is muted gets
\* level 0, stored and carried by its event; an event emitted while muted
\* has is_speaking = false; the event's rms is always the RMS of the
\* processed frame, muted or not.
C14_MutedEventLevelZero ==
    /\ [][\A r \in FrameRms :
             (CaptureLevel(r) /\ is_muted)
                => (cb'.level = 0 /\ cb'.rms = r)]_vars
    /\ [][CaptureStore => current_level' = cb.level]_vars
    /\ [][CaptureEmit
             => /\ emitted'.level = cb.level
                /\ emitted'.rms = cb.rms
                /\ (is_muted => ~emitted'.is_speaking)]_vars

\* muted again after having been unmuted, a loud frame was reported with
\* level 0 and its own rms
C14_Witness ==
    /\ is_capturing
    /\ is_muted
    /\ unmuted_once
    /\ emitted.frame > 0
    /\ emitted.level = 0
    /\ emitted.rms = Unit
    /\ ~emitted.is_speaking

\* the packets the polls returned, in the order of the returns
Returned == SelectSeq([i \in 1..Len(got) |-> got[i].packet],
                      LAMBDA q : q # NoPacket)

\* C15: get_outgoing_packet never waits for a packet: on an empty queue it
\* returns None, otherwise the oldest packet, which leaves the queue.  With
\* several pollers racing the capture callback the packets returned so
\* far, followed by those still queued, are exactly the packets sent, in
\* the order they were sent: none twice, none lost.
C15_EachPacketOnce ==
    /\ [](Returned \o outgoing = sent)
    /\ [][\A k \in Pollers :
             PollRecv(k) =>
                /\ got'[Len(got')].by = k
                /\ got'[Len(got')].packet =
                      (IF outgoing = <<>> THEN NoPacket ELSE Head(outgoing))
                /\ rx_lock' = 0]_vars
    /\ \A k \in Pollers : [](rx_lock = k => ENABLED PollRecv(k))

\* both pollers got a packet, first sent first, and one is still queued
C15_Witness ==
    /\ Len(sent) = 3
    /\ Len(got) = 2
    /\ got[1].by # got[2].by
    /\ got[1].packet = sent[1]
    /\ got[2].packet = sent[2]
    /\ Len(outgoing) = 1

\* C16: the decoded audio kept for each peer and the shared playback buffer
\* each hold at most about the cap's worth of frames (one frame of slack
\* allowed here), the oldest frames being the ones dropped.
C16_BuffersBounded ==
    /\ Len(playback_buffer) <= PlaybackCapFrames
    /\ \A i \in 1..(Len(playback_buffer) - 1) :
          playback_buffer[i].id < playback_buffer[i + 1].id
    /\ \A p \in DOMAIN peer_playback :
          Len(peer_playback[p]) <= PlaybackCapFrames + 1

\* C18: a packet the decoder rejects makes receive_peer_audio return an
\* error and adds nothing to the playback buffer nor to the peer's decoded
\* audio; a packet that decodes, from the same peer or another, before or
\* after a failure, returns Ok and its frame is the newest in both buffers.
C18_FailedDecodeAddsNothing ==
    [][\A p \in StreamPeers :
          /\ ReceivePeerAudio(p, FALSE) =>
                /\ ReceivePeerAudioResult(FALSE) = "err"
                /\ playback_buffer' = playback_buffer
                /\ peer_playback'[p] =
                      (IF p \in DOMAIN peer_playback THEN peer_playback[p]
                       ELSE <<>>)
          /\ ReceivePeerAudio(p, TRUE) =>
                /\ ReceivePeerAudioResult(TRUE) = "ok"
                /\ playback_buffer'[Len(playback_buffer')] =
                      [peer |-> p, id |-> rx_calls']
                /\ peer_playback'[p][Len(peer_playback'[p])] =
                      [peer |-> p, id |-> rx_calls']
                /\ Len(playback_buffer') =
                      IF Len(playback_buffer) < PlaybackCapFrames
                      THEN Len(playback_buffer) + 1 ELSE PlaybackCapFrames]_vars

\* a packet of p1 failed to decode (packet 1 is in no buffer), and later
\* packets of p1 and of p2 are buffered
C18_Witness ==
    /\ rx_calls = 3
    /\ DOMAIN peer_playback = StreamPeers
    /\ playback_buffer = <<[peer |-> "p1", id |-> 2], [peer |-> "p2", id |-> 3]>>
    /\ peer_playback["p1"] = <<[peer |-> "p1", id |-> 2]>>

\* C17: set_input_device / set_output_device on an active stream stores the
\* selection and releases the stream before the settle delay, and builds
\* the new stream only after it: a stream is only ever built into an empty
\* slot, so a direction never has two native streams.  When the restart
\* returns Ok the stream is active on the selected device.  On an inactive
\* stream the call only stores the selection.
C17_StopSettleStart ==
    /\ [](\A dir \in {"in", "out"} : native[dir] \in {0, 1})
    /\ []((native["in"] = 1) = (capture_stream # NoStream))
    /\ []((native["out"] = 1) = (playback_stream # NoStream))
    /\ [][/\ capture_stream' \notin {capture_stream, NoStream}
             => capture_stream = NoStream
          /\ playback_stream' \notin {playback_stream, NoStream}
             => playback_stream = NoStream]_vars
    /\ [][\A d \in DeviceNames :
          /\ SetInputDeviceCall(d) =>
                /\ selected_input_device' = d
                /\ IF is_capturing
                   THEN /\ capture_stream' = NoStream
                        /\ ~is_capturing'
                        /\ dev_call'["in"] = Settling
                   ELSE UNCHANGED <<capture_stream, is_capturing, encoder,
                                    native, dev_call>>
          /\ SetOutputDeviceCall(d) =>
                /\ selected_output_device' = d
                /\ IF is_playing
                   THEN /\ playback_stream' = NoStream
                        /\ ~is_playing'
                        /\ dev_call'["out"] = Settling
                   ELSE UNCHANGED <<playback_stream, is_playing, native,
                                    dev_call, playback_buffer>>]_vars
    /\ [][/\ \A res \in CaptureFaults :
                (SetInputDeviceRestart(res) /\ StartCaptureResult(res) = "ok")
                   => (is_capturing' /\ capture_stream' = selected_input_device')
          /\ \A res \in PlaybackFaults :
                (SetOutputDeviceRestart(res) /\ StartPlaybackResult(res) = "ok")
                   => (is_playing' /\ playback_stream' = selected_output_device')]_vars

\* both streams were switched from the default device to the other one
C17_Witness ==
    /\ is_capturing
    /\ capture_stream = "usb"
    /\ is_playing
    /\ playback_stream = "usb"
    /\ dev_call = [dir \in {"in", "out"} |-> [step |-> "idle"]]

\* the sample a (in 1/Unit steps) as an output sample, as it is and after
\* the clamp of mix_into
AsIs(a) == IF a = 0 THEN Silence ELSE Out(a * Unit * Unit, 1)
Clamped(a) == ClampOut(a * Unit, Unit, 1)

\* the mixer holds one peer, unmuted, at gain 1.0, with a frame or more, and
\* the master volume is 1.0
LonePeer(p) ==
    /\ DOMAIN mixer.peers = {p}
    /\ ~mixer.peers[p].muted
    /\ mixer.peers[p].volume = Unit
    /\ Len(mixer.peers[p].samples) >= SAMPLES_PER_FRAME
    /\ mixer.master_volume = Unit

\* C19 as stated: for a lone peer at gain 1.0 and master volume 1.0,
\* get_mixed_samples returns the SAMPLES_PER_FRAME oldest samples of that
\* peer unchanged and in order, and removes exactly those from its buffer.
C19_LonePeerUnchanged ==
    [][\A p \in MixPeers :
          (GetMixedSamples /\ LonePeer(p))
          => /\ mixed' = [i \in 1..SAMPLES_PER_FRAME |->
                             AsIs(mixer.peers[p].samples[i])]
             /\ mixer' = [mixer EXCEPT !.peers[p].samples =
                             SubSeq(@, SAMPLES_PER_FRAME + 1, Len(@))]]_vars

\* C19: for a lone peer at gain 1.0 and master volume 1.0, get_mixed_samples
\* returns the SAMPLES_PER_FRAME oldest samples of that peer in order, each
\* clamped to [-1, 1] and so unchanged when it lies in that range, and
\* removes exactly those samples from its buffer, nothing else changing.
C19_LonePeerPassesThrough ==
    [][\A p \in MixPeers :
          (GetMixedSamples /\ LonePeer(p))
          => /\ mixed' = [i \in 1..SAMPLES_PER_FRAME |->
                             Clamped(mixer.peers[p].samples[i])]
             /\ \A i \in 1..SAMPLES_PER_FRAME :
                   mixer.peers[p].samples[i] \in (0 - Unit)..Unit
                      => mixed'[i] = AsIs(mixer.peers[p].samples[i])
             /\ mixer' = [mixer EXCEPT !.peers[p].samples =
                             SubSeq(@, SAMPLES_PER_FRAME + 1, Len(@))]]_vars

\* the lone peer held a sample of 1.1 followed by the burst 0.1, 0.2, ...:
\* one mix returned 1.0 and 0.1 and left the rest of the burst buffered
C19_Witness ==
    /\ DOMAIN mixer.peers = {"p1"}
    /\ mixer.peers["p1"].volume = Unit
    /\ ~mixer.peers["p1"].muted
    /\ mixer.master_volume = Unit
    /\ mx_sets = 0
    /\ mixed = <<Out(Unit3, 1), AsIs(1)>>
    /\ mixer.peers["p1"].samples =
          [i \in 1..(JITTER_BUFFER_SAMPLES * 2 - 2) |-> i + 1]

\* an output sample lies in [-1, 1]
InRange(x) == x.root >= 1 /\ x.num * x.num <= Unit3 * Unit3 * x.root

\* C20: every sample a mix returns lies in [-1, 1], whatever peers, buffered
\* samples in [-1, 1] and gains there are; every per-peer gain and the
\* master gain lie in [0, 1] after any calls of set_peer_volume and
\* set_master_volume, also with arguments outside [0, 1].
C20_OutputAndGainsInRange ==
    /\ \A i \in 1..Len(mixed) : InRange(mixed[i])
    /\ mixer.master_volume \in 0..Unit
    /\ \A p \in DOMAIN mixer.peers : mixer.peers[p].volume \in 0..Unit

\* two loud peers at full gain were mixed: the sum over sqrt(2) exceeds 1
\* and the output is the clamp's bound
C20_Witness ==
    /\ Cardinality(DOMAIN mixer.peers) = 2
    /\ mixed = [i \in 1..SAMPLES_PER_FRAME |-> Out(Unit3, 1)]

\* the newest n samples of a buffer
Newest(q, n) == SubSeq(q, Len(q) - n + 1, Len(q))

\* C21: get_peer_level(p) is the RMS over the most recently appended
\* min(len, SAMPLES_PER_FRAME) samples of p's buffer, the newest frame's
\* worth and not the oldest; it leaves the mixer unchanged; it is 0 for an
\* unknown peer and for an empty buffer.
C21_LevelOverNewest ==
    [][\A p \in MixPeers :
          GetPeerLevel(p) =>
             /\ mixer' = mixer
             /\ peer_level'.level =
                   IF ~HasPeer(mixer, p) \/ mixer.peers[p].samples = <<>>
                   THEN ZeroLevel
                   ELSE LET n == Min(Len(mixer.peers[p].samples),
                                     SAMPLES_PER_FRAME)
                        IN MeanSquare(
                              SumSquares(Newest(mixer.peers[p].samples, n)),
                              n)]_vars

\* C22: is_connected() is true only if some session of the manager has
\* completed the offer/answer exchange (its description exchange is done:
\* AnswerPending or Connected); it is false while every session is New or
\* OfferSent.
C22_ConnectedOnlyAfterExchange ==
    is_connected(Caller) =>
        \E p \in DOMAIN peers[Caller] :
            SessionState(SessionOf(Caller, p)) \in {"AnswerPending", "Connected"}

\* C23: remove_peer on an id without a session (never added, or already
\* removed) changes nothing: no transport is handed to a close task and
\* every session of the map stays as it is.  On an id with a session it
\* removes that session only and hands only its transport to a close task.
C23_RemoveAbsentIsNoOp ==
    [][\A p \in PeerIds :
          RemovePeer(p) =>
             /\ ~HasSession(Caller, p) => UNCHANGED <<peers, pcs>>
             /\ p \notin DOMAIN peers'[Caller]
             /\ \A q \in DOMAIN peers[Caller] \ {p} :
                   /\ q \in DOMAIN peers'[Caller]
                   /\ peers'[Caller][q] = peers[Caller][q]
                   /\ pcs'[peers[Caller][q].pc] = pcs[peers[Caller][q].pc]
             /\ \A h \in Handles :
                   pcs'[h] # pcs[h] =>
                      HasSession(Caller, p) /\ h = peers[Caller][p].pc]_vars

\* p2 was removed, its transport handed to a close task, while p1 keeps a
\* live session: removing p2 once more is the no-op
C23_Witness ==
    /\ DOMAIN peers[Caller] = {"p1"}
    /\ pcs[peers[Caller]["p1"].pc].status = "live"
    /\ \E h \in Handles : pcs[h].peer = "p2" /\ pcs[h].status = "closing"

\* C26: for a ratio of exactly 1.0 resample returns a sequence equal to its
\* input, for every input including the empty one.
C26_RatioOneIsIdentity ==
    (rs_done /\ rs_ratio = One) => rs_out = rs_in

\* a full-length input that is not constant went through at ratio 1.0
C26_Witness ==
    /\ rs_done
    /\ rs_ratio = One
    /\ rs_in = <<1, 5, 1>>
    /\ rs_out = <<1, 5, 1>>

\* the output has ceil(len * ratio) samples and every source index read
\* lies within the input
LengthAndReads ==
    rs_done =>
       /\ Len(rs_out) * rs_ratio.den >= Len(rs_in) * rs_ratio.num
       /\ (Len(rs_out) - 1) * rs_ratio.den < Len(rs_in) * rs_ratio.num
       /\ \A i \in 0..(Len(rs_out) - 1) :
             /\ ReadsAt(Len(rs_in), i, rs_ratio) # {}
             /\ ReadsAt(Len(rs_in), i, rs_ratio) \subseteq 0..(Len(rs_in) - 1)

\* C27 as stated: the output has exactly ceil(len * ratio) samples, every
\* source index read is within the input, and an input of length 1 is
\* returned as an unchanged copy.
C27_LengthOneUnchanged ==
    /\ LengthAndReads
    /\ (rs_done /\ Len(rs_in) = 1) =>
          (Len(rs_out) = 1 /\ rs_out[1] = rs_in[1] * rs_ratio.num)

\* C27: the output has exactly ceil(len * ratio) samples and every source
\* index read is within the input, the upper neighbour being clamped at the
\* last sample; an input of length 1 comes back as ceil(ratio) copies of
\* its sample, so as an unchanged copy only for ratios of at most 1.
C27_LengthAndClamp ==
    /\ LengthAndReads
    /\ (rs_done /\ Len(rs_in) = 1) =>
          /\ Len(rs_out) = Ceil(rs_ratio.num, rs_ratio.den)
          /\ \A k \in 1..Len(rs_out) : rs_out[k] = rs_in[1] * rs_ratio.num

\* one sample was resampled at ratio 3/2 and two samples came back
C27_Witness ==
    /\ rs_done
    /\ rs_in = <<5>>
    /\ rs_ratio = [num |-> 3, den |-> 2]
    /\ rs_out = <<15, 15>>

\* C24: while the noise suppressor is disabled process() passes its input
\* through: the outputs of the calls made while disabled, joined, equal
\* their inputs, joined; each such call returns its input and leaves the
\* suppressor as it was; and nothing is held in the internal buffers.
C24_DisabledPassThrough ==
    /\ [](dn_out = dn_in)
    /\ [](~denoiser.enabled =>
             denoiser.input_buffer = <<>> /\ denoiser.output_buffer = <<>>)
    /\ [][\A samples \in DenoiseInputs :
             (DenoiseProcess(samples) /\ ~denoiser.enabled)
                => /\ process(denoiser, samples).result = samples
                   /\ denoiser' = denoiser]_vars

\* disabled, at a source rate other than 48 kHz, every call of the
\* behaviour was made and at least five samples were passed through
C24_Witness ==
    /\ ~denoiser.enabled
    /\ denoiser.to_48k # One
    /\ dn_calls = MaxProcess
    /\ Len(dn_out) >= 5
    /\ dn_out = dn_in

\* C25: encode returns an error and no packet for every input whose length
\* is not exactly SAMPLES_PER_FRAME, and the codec is only ever handed
\* inputs of exactly SAMPLES_PER_FRAME samples.
C25_EncodeChecksLength ==
    \A i \in 1..Len(enc_log) :
       /\ enc_log[i].len # SAMPLES_PER_FRAME =>
             /\ enc_log[i].result = "err"
             /\ ~enc_log[i].packet
             /\ enc_log[i].codec = 0 - 1
       /\ enc_log[i].codec # 0 - 1 => enc_log[i].codec = SAMPLES_PER_FRAME
       /\ enc_log[i].packet => enc_log[i].result = "ok"

\* a short input, a long input and a frame were encoded: two errors and a
\* packet
C25_Witness ==
    /\ Len(enc_log) = 3
    /\ enc_log[1].len = SAMPLES_PER_FRAME - 1 /\ enc_log[1].result = "err"
    /\ enc_log[2].len = SAMPLES_PER_FRAME + 1 /\ enc_log[2].result = "err"
    /\ enc_log[3].len = SAMPLES_PER_FRAME /\ enc_log[3].packet

\* C28: get_mixed_samples always returns exactly one frame of
\* SAMPLES_PER_FRAME samples, and every one of them is zero whenever the
\* peer set is empty at the call.
C28_OneFrameSilentWhenEmpty ==
    [][GetMixedSamples =>
          /\ Len(mixed') = SAMPLES_PER_FRAME
          /\ (DOMAIN mixer.peers = {} =>
                 \A i \in 1..SAMPLES_PER_FRAME : mixed'[i] = Silence)]_vars

\* get_mixed_samples was called on a mixer that never had a peer and
\* returned a frame of zeros
C28_Witness ==
    /\ mx_adds = 0
    /\ DOMAIN mixer.peers = {}
    /\ Len(mixed) = SAMPLES_PER_FRAME
    /\ \A i \in 1..SAMPLES_PER_FRAME : mixed[i] = Silence

\* C29: an inbound control channel is attached only to the session that was
\* created with the transport it arrived on: the control channel held by an
\* entry is always a channel of that entry's own transport, so a channel
\* arriving after its session was removed or replaced never lands in a newer
\* session.
C29_ChannelOfOwnTransport ==
    \A p \in DOMAIN peers[Caller] :
       peers[Caller][p].data_channel # NoChannel =>
          peers[Caller][p].data_channel = peers[Caller][p].pc

\* C30 as stated: from the moment set_muted(true) returns until
\* set_muted(false) is called, current_level() is 0, under every
\* interleaving with a capture callback that is in the middle of a frame.
C30_MutedLevelZero == (is_muted /\ unmuted_once) => current_level = 0

\* C31: every frame process_capture hands to the encoder has exactly
\* SAMPLES_PER_FRAME samples, a longer processed frame cut to its first
\* SAMPLES_PER_FRAME samples and a shorter or empty one followed by zeros,
\* so encode never fails on the length, at every device rate and in every
\* denoiser state.
C31_EncoderGetsWholeFrames ==
    \A i \in 1..Len(pl_log) :
       LET f == pl_log[i]
           n == Min(Len(f.processed), SAMPLES_PER_FRAME)
       IN /\ Len(f.to_encode) = SAMPLES_PER_FRAME
          /\ SubSeq(f.to_encode, 1, n) = SubSeq(f.processed, 1, n)
          /\ \A k \in (n + 1)..SAMPLES_PER_FRAME : f.to_encode[k] = 0
          /\ f.enc.codec = SAMPLES_PER_FRAME

\* a device at twice the internal rate with the suppressor buffering: an
\* empty processed frame was padded and a longer one cut, both encoded
C31_Witness ==
    /\ Len(pl_log) >= 2
    /\ pl_log[1].processed = <<>>
    /\ pl_log[1].enc.result = "ok"
    /\ Len(pl_log[2].processed) > SAMPLES_PER_FRAME
    /\ pl_log[2].enc.result = "ok"

\* C32: while the noise suppressor is enabled at the internal rate, after
\* every process() call the input buffer holds fewer than
\* DENOISE_FRAME_SIZE samples and the call's output is a whole number of
\* frames; over the process() calls made since the buffers were last
\* cleared the outputs, joined, are the processed first
\* DENOISE_FRAME_SIZE x floor(total input / DENOISE_FRAME_SIZE) input
\* samples in order, and the rest of the input is what the buffer holds.
C32_WholeFramesTailKept ==
    /\ []((denoiser.enabled /\ denoiser.to_48k = One) =>
            /\ Len(denoiser.input_buffer) < DENOISE_FRAME_SIZE
            /\ Len(dn_got) =
                 DENOISE_FRAME_SIZE * (Len(dn_fed) \div DENOISE_FRAME_SIZE)
            /\ dn_got = process_frame(SubSeq(dn_fed, 1, Len(dn_got)))
            /\ denoiser.input_buffer =
                 SubSeq(dn_fed, Len(dn_got) + 1, Len(dn_fed)))
    /\ [][\A samples \in DenoiseInputs :
             (DenoiseProcess(samples) /\ denoiser.enabled
                 /\ denoiser.to_48k = One)
                => Len(process(denoiser, samples).result)
                      % DENOISE_FRAME_SIZE = 0]_vars

\* three calls at the internal rate: a sample left over by one call came
\* out of a later one, and one sample is still waiting
C32_Witness ==
    /\ denoiser.enabled
    /\ denoiser.to_48k = One
    /\ dn_calls = MaxProcess
    /\ Len(dn_fed) = 2 * DENOISE_FRAME_SIZE + 1
    /\ Len(dn_got) = 2 * DENOISE_FRAME_SIZE
    /\ Len(denoiser.input_buffer) = 1

\* C33: the playback callback emits the playback buffer oldest first, in the
\* order receive_peer_audio appended: a callback that takes a frame takes
\* the head of the buffer and leaves the rest in place.
C33_OldestFirst ==
    [][OutputCallback => playback_buffer' = Tail(playback_buffer)]_vars

\* C34: after screen_stream_start has returned Ok the stream stays active
\* until screen_stream_stop is called: is_streaming is true and the task of
\* that stream is still in its loop, whatever an earlier stopped task does.
C34_StreamStaysActive ==
    ss_active # 0 =>
       /\ ss_is_streaming
       /\ ss_tasks[ss_active].pc \in {"check", "frame"}

\* C35: each captured frame is handled under a single mute value: every
\* level event with is_speaking = true carries a level above 0, under any
\* interleaving of set_muted with the capture callback.
C35_SpeakingHasLevel == emitted.is_speaking => emitted.level > 0

\* C36: every text message received on a session's control channel is
\* forwarded to the sender most recently registered with
\* set_message_sender, whether it was registered before or after the
\* session was created, on the offerer and on the answerer side.
C36_ForwardedToLatestSender ==
    \A i \in 1..Len(mm_received) :
       mm_received[i].sent_to = mm_received[i].registered

\* C37: the voice-active flag tracks the capture state: between commands
\* audio_is_voice_active() is true exactly when RealtimeCapture is
\* capturing, after every sequence of audio_start_voice, audio_stop_voice,
\* audio_set_input_device and audio_cleanup.
C37_VoiceFlagTracksCapture == av_is_voice_active = rc_is_capturing

\* C38: AudioPlayback plays in FIFO order: the samples written to the
\* device, silence left out, followed by the samples still waiting in the
\* buffer, are all the samples handed to the playback in the order they
\* were handed over, none dropped, duplicated or reordered.
C38_PlayedInArrivalOrder ==
    SelectSeq(pb_played, LAMBDA x : x # 0) \o pb_buffer
        = [k \in 1..pb_count |-> k]

\* C39: once every audio_set_master_volume call has returned, the volume
\* audio_get_master_volume reports is the volume the mixer applies, for
\* every interleaving of concurrent set calls and audio_cleanup.
C39_VolumeCopiesAgree ==
    (\A c \in VolumeCallers : vol_calls[c].pc = "idle")
        => audio_get_master_volume = mixer.master_volume

\* C40: each send_audio builds a packet whose sequence number is one more
\* (mod 2^16) and whose timestamp is 960 more (mod 2^32) than those of the
\* packet built before it on the track; no two packets share a sequence
\* number or a timestamp; the counters stand one packet past the last one
\* built, whether or not the writes succeeded.
C40_OneMore(a, b) == b = IF a = 65535 THEN 0 ELSE a + 1
C40_Plus960(a, b) ==
    IF a.lo + 960 < 65536
    THEN b.lo = a.lo + 960 /\ b.hi = a.hi
    ELSE /\ b.lo = a.lo + 960 - 65536
         /\ b.hi = IF a.hi = 65535 THEN 0 ELSE a.hi + 1
C40_CountersAdvanceTogether ==
    /\ \A i \in 1..(Len(rtp_packets) - 1) :
          /\ C40_OneMore(rtp_packets[i].sequence_number,
                         rtp_packets[i + 1].sequence_number)
          /\ C40_Plus960(rtp_packets[i].timestamp,
                         rtp_packets[i + 1].timestamp)
    /\ \A i, j \in DOMAIN rtp_packets :
          i # j => /\ rtp_packets[i].sequence_number
                        # rtp_packets[j].sequence_number
                   /\ rtp_packets[i].timestamp # rtp_packets[j].timestamp
    /\ rtp_packets # <<>> =>
          /\ C40_OneMore(rtp_packets[Len(rtp_packets)].sequence_number,
                         rtp_sequence_number)
          /\ C40_Plus960(rtp_packets[Len(rtp_packets)].timestamp,
                         rtp_timestamp)
    /\ \A c \in RtpCallers :
          rtp_calls[c].pc = "built" =>
              \E i \in DOMAIN rtp_packets : rtp_packets[i] = rtp_calls[c].packet
\* two calls in flight at once, a failed write behind them, and both the
\* sequence number and the timestamp have wrapped
C40_Witness ==
    /\ Len(rtp_packets) = MaxSends
    /\ \E r \in DOMAIN rtp_results : ~rtp_results[r].ok
    /\ \A c \in RtpCallers : rtp_calls[c].pc = "built"
    /\ rtp_sequence_number < rtp_packets[1].sequence_number
    /\ rtp_timestamp.hi < rtp_packets[1].timestamp.hi

====
